---- MODULE Spec2Model ----
(***************************************************************************)
(* Model of the Firebot goal tracker's GoalManager                         *)
(* (src/src/utility/goal-manager.ts): the local donation ledger, the       *)
(* persisted /goal document and the external-source sync.                  *)
(*                                                                         *)
(* JavaScript numbers are IEEE-754 doubles.  They are modelled exactly:    *)
(* a number is a sign and a magnitude, the magnitude an unbounded natural  *)
(* counting units of 2^-FracBits, and every arithmetic operation computes  *)
(* the exact result and rounds it to 53 significant bits, ties to even.    *)
(***************************************************************************)
EXTENDS Integers, Sequences, FiniteSets, TLC

(***************************************************************************)
(* Unbounded naturals: little-endian sequences of limbs in base 2^15,      *)
(* without leading zero limbs; zero is the empty sequence.                 *)
(***************************************************************************)
LimbBits == 15
Base == 32768

RECURSIVE BNorm(_)
BNorm(a) ==
  IF a = <<>> THEN <<>>
  ELSE IF a[Len(a)] = 0 THEN BNorm(SubSeq(a, 1, Len(a) - 1)) ELSE a

BFromInt(n) ==
  IF n = 0 THEN <<>>
  ELSE IF n < Base THEN <<n>>
  ELSE IF n < Base * Base THEN <<n % Base, n \div Base>>
  ELSE <<n % Base, (n \div Base) % Base, n \div (Base * Base)>>

\* value of a bignum known to fit an Int
BToInt(a) ==
  IF a = <<>> THEN 0
  ELSE IF Len(a) = 1 THEN a[1]
  ELSE IF Len(a) = 2 THEN a[1] + Base * a[2]
  ELSE a[1] + Base * a[2] + Base * Base * a[3]

BLimb(a, i) == IF i >= 1 /\ i <= Len(a) THEN a[i] ELSE 0

RECURSIVE BAddFrom(_, _, _, _)
BAddFrom(a, b, i, carry) ==
  IF i > Len(a) /\ i > Len(b)
  THEN IF carry = 0 THEN <<>> ELSE <<carry>>
  ELSE LET sum == BLimb(a, i) + BLimb(b, i) + carry
       IN  <<sum % Base>> \o BAddFrom(a, b, i + 1, sum \div Base)

BAdd(a, b) == BAddFrom(a, b, 1, 0)

\* a - b for a >= b
RECURSIVE BSubFrom(_, _, _, _)
BSubFrom(a, b, i, borrow) ==
  IF i > Len(a) THEN <<>>
  ELSE LET d == BLimb(a, i) - BLimb(b, i) - borrow
       IN  IF d < 0 THEN <<d + Base>> \o BSubFrom(a, b, i + 1, 1)
                    ELSE <<d>> \o BSubFrom(a, b, i + 1, 0)

BSub(a, b) == BNorm(BSubFrom(a, b, 1, 0))

\* -1, 0 or 1 as a < b, a = b, a > b
RECURSIVE BCmpFrom(_, _, _)
BCmpFrom(a, b, i) ==
  IF i = 0 THEN 0
  ELSE IF a[i] < b[i] THEN -1
  ELSE IF a[i] > b[i] THEN 1
  ELSE BCmpFrom(a, b, i - 1)

BCmp(a, b) ==
  IF Len(a) < Len(b) THEN -1
  ELSE IF Len(a) > Len(b) THEN 1
  ELSE BCmpFrom(a, b, Len(a))

\* a * k for 0 <= k < Base
RECURSIVE BMulFrom(_, _, _, _)
BMulFrom(a, k, i, carry) ==
  IF i > Len(a)
  THEN IF carry = 0 THEN <<>> ELSE <<carry>>
  ELSE LET p == a[i] * k + carry
       IN  <<p % Base>> \o BMulFrom(a, k, i + 1, p \div Base)

BMulSmall(a, k) == IF k = 0 THEN <<>> ELSE BMulFrom(a, k, 1, 0)

\* quotient and remainder of a by k, 0 < k < Base
RECURSIVE BDivFrom(_, _, _, _)
BDivFrom(a, k, i, rem) ==
  IF i = 0 THEN [quot |-> <<>>, rem |-> rem]
  ELSE LET cur  == rem * Base + a[i]
           rest == BDivFrom(a, k, i - 1, cur % k)
       IN  [quot |-> Append(rest.quot, cur \div k), rem |-> rest.rem]

BDivSmall(a, k) ==
  LET r == BDivFrom(a, k, Len(a), 0)
  IN  [quot |-> BNorm(r.quot), rem |-> r.rem]

\* 2^n
BPow2(n) ==
  [i \in 1..(n \div LimbBits + 1) |->
     IF i = n \div LimbBits + 1 THEN 2 ^ (n % LimbBits) ELSE 0]

\* a * 2^n
BShl(a, n) ==
  LET d == n \div LimbBits
      f == 2 ^ (n % LimbBits)
  IN  BNorm([i \in 1..(Len(a) + d + 1) |->
               IF i <= d THEN 0
               ELSE ((BLimb(a, i - d) * f) % Base)
                      + ((BLimb(a, i - d - 1) * f) \div Base)])

\* floor(a / 2^n)
BShr(a, n) ==
  LET d == n \div LimbBits
      r == n % LimbBits
  IN  IF d >= Len(a) THEN <<>>
      ELSE BNorm([i \in 1..(Len(a) - d) |->
                    (BLimb(a, i + d) \div (2 ^ r))
                      + ((BLimb(a, i + d + 1) % (2 ^ r))
                           * (2 ^ (LimbBits - r)))])

\* a with its n lowest bits cleared
BClearBelow(a, n) ==
  LET d == n \div LimbBits
      f == 2 ^ (n % LimbBits)
  IN  BNorm([i \in 1..Len(a) |->
               IF i <= d THEN 0
               ELSE IF i = d + 1 THEN a[i] - (a[i] % f)
               ELSE a[i]])

\* the n lowest bits of a are zero
BLowZero(a, n) ==
  /\ \A i \in 1..(n \div LimbBits) : BLimb(a, i) = 0
  /\ BLimb(a, n \div LimbBits + 1) % (2 ^ (n % LimbBits)) = 0

RECURSIVE IntBitLen(_)
IntBitLen(n) == IF n = 0 THEN 0 ELSE 1 + IntBitLen(n \div 2)

BBitLen(a) ==
  IF a = <<>> THEN 0 ELSE LimbBits * (Len(a) - 1) + IntBitLen(a[Len(a)])

(***************************************************************************)
(* IEEE-754 doubles.  A number is [neg, mag]: mag counts units of          *)
(* 2^-FracBits, and zero is never negative (-0 === 0 in JavaScript and     *)
(* both serialise to 0).  Every double that is a multiple of 2^-FracBits   *)
(* and below 2^15 is such a number: every double from 2^-8 up, and every   *)
(* sum and difference of two of them.  Amounts are a cent or more, so the  *)
(* products, sums and quotients of safeAdd are such numbers too.           *)
(***************************************************************************)
FracBits == 60
Mantissa == 53

FNum(neg, mag) == [neg |-> neg /\ mag # <<>>, mag |-> mag]

FZero == FNum(FALSE, <<>>)

\* the exact magnitude m (sticky: a nonzero remainder below the last unit)
\* rounded to 53 significant bits, ties to even
Round53(m, sticky) ==
  LET len == BBitLen(m)
  IN  IF len <= Mantissa THEN m
      ELSE LET s       == len - Mantissa
               raised  == BAdd(m, BPow2(s - 1))
               tie     == BLowZero(raised, s) /\ ~sticky
           IN  \* on a tie the last kept bit is cleared as well: to even
               BClearBelow(raised, IF tie THEN s + 1 ELSE s)

FNeg(x) == FNum(~x.neg, x.mag)

\* x + y of JavaScript
FAdd(x, y) ==
  IF x.neg = y.neg
  THEN FNum(x.neg, Round53(BAdd(x.mag, y.mag), FALSE))
  ELSE IF BCmp(x.mag, y.mag) >= 0
       THEN FNum(x.neg, Round53(BSub(x.mag, y.mag), FALSE))
       ELSE FNum(y.neg, Round53(BSub(y.mag, x.mag), FALSE))

\* x - y of JavaScript
FSub(x, y) == FAdd(x, FNeg(y))

\* x * k of JavaScript for an integer 0 < k < 2^15
FMulInt(x, k) == FNum(x.neg, Round53(BMulSmall(x.mag, k), FALSE))

\* mag / k rounded, the quotient taken to GuardBits more bits than a unit so
\* that the rounding sees what lies below the last unit
GuardBits == 15

FQuotient(neg, mag, k) ==
  LET d == BDivSmall(BShl(mag, GuardBits), k)
  IN  FNum(neg, BShr(Round53(d.quot, d.rem # 0), GuardBits))

\* x / k of JavaScript for an integer 0 < k < 2^15
FDivInt(x, k) == FQuotient(x.neg, x.mag, k)

\* the double nearest to n / k (what parsing a decimal literal gives)
FRatio(neg, n, k) == FQuotient(neg, BShl(BFromInt(n), FracBits), k)

FLess(x, y) ==
  IF x.neg # y.neg THEN x.neg
  ELSE IF x.neg THEN BCmp(x.mag, y.mag) > 0 ELSE BCmp(x.mag, y.mag) < 0

\* x < y in place of x <= y
FLeqWithoutEqual(x, y) == FLess(x, y)

FLeq(x, y) == x = y \/ FLess(x, y)

\* value.toFixed(2): the integer n with n / 100 nearest to |value|, the larger
\* n on a tie, and the sign; the string it stands for is [-]n/100
toFixed2(x) ==
  [neg |-> x.neg,
   cents |-> BToInt(BShr(BAdd(BMulSmall(x.mag, 200), BPow2(FracBits)),
                         FracBits + 1))]

\* parseFloat of a string written by toFixed(2)
parseFloat2(str) == FRatio(str.neg, str.cents, 100)

\* parseFloat(value.toFixed(2))
Rounded(value) == parseFloat2(toFixed2(value))

\* this.roundToTwoDecimals((a * 100 + b * 100) / 100)
Summed(a, b) ==
  Rounded(FDivInt(FAdd(FMulInt(a, 100), FMulInt(b, 100)), 100))

(***************************************************************************)
(* The arithmetic above is evaluated limb by limb.  For the doubles of the *)
(* amounts 0.00 .. CacheCents / 100 its results are computed once and kept *)
(* in tables; every other operand is computed where it occurs.             *)
(***************************************************************************)
CacheCents == 40

CentDoubles == {FRatio(FALSE, c, 100) : c \in 0..CacheCents}

RoundedOnce == [x \in CentDoubles |-> Rounded(x)]

SummedOnce == [a \in CentDoubles |-> [b \in CentDoubles |-> Summed(a, b)]]

DifferenceOnce == [a \in CentDoubles |-> [b \in CentDoubles |-> FSub(a, b)]]

roundToTwoDecimals(value) ==
  IF value \in CentDoubles THEN RoundedOnce[value] ELSE Rounded(value)

\* a + b of JavaScript where safeAdd is called for
plainAdd(a, b) == FAdd(a, b)

safeAdd(a, b) ==
  IF a \in CentDoubles /\ b \in CentDoubles
  THEN SummedOnce[a][b]
  ELSE Summed(a, b)

\* a - b of JavaScript
Minus(a, b) ==
  IF a \in CentDoubles /\ b \in CentDoubles
  THEN DifferenceOnce[a][b]
  ELSE FSub(a, b)

(***************************************************************************)
(* Strings.  A name is a sequence of characters so that toLowerCase acts   *)
(* on it character by character; an optional value (undefined or a value)  *)
(* is a sequence of length 0 or 1.                                         *)
(***************************************************************************)
UpperCase == <<"A", "B", "C", "D">>
LowerCase == <<"a", "b", "c", "d">>

toLowerCaseChar(ch) ==
  IF \E i \in 1..Len(UpperCase) : UpperCase[i] = ch
  THEN LowerCase[CHOOSE i \in 1..Len(UpperCase) : UpperCase[i] = ch]
  ELSE ch

toLowerCase(str) == [i \in 1..Len(str) |-> toLowerCaseChar(str[i])]

None == <<>>
Some(v) == <<v>>
IsSome(o) == o # <<>>
Get(o) == o[1]

(***************************************************************************)
(* Bounds and inputs                                                       *)
(***************************************************************************)
\* the last instant (ms) of the clock
MaxNow == 5001
\* the most individual donations the ledger is driven to hold
MaxDonations == 2
\* the duplicate window of updateLocalDonation, ms
DupWindow == 5000

\* instants at which operations happen: both sides of the duplicate window
Instants == {t \in 0..MaxNow : t % DupWindow <= 1}

Names == {<<"A", "d", "a">>, <<"a", "d", "a">>, <<"B", "o", "b">>}

\* donation amounts handed to updateLocalDonation, in thousandths
AmountInputs == {-100, 0, 100, 104, 200}

\* Number(event.effect.donationAmount) for the decimal m / 1000
\* amounts of two decimals, for the ledger that only grows
AddInputs == {70, 100, 200}

AmountValue == [m \in AmountInputs \cup AddInputs |->
                  FRatio(m < 0, IF m < 0 THEN -m ELSE m, 1000)]

\* this.roundToTwoDecimals(donation.amount)
RoundedAmount == [m \in AmountInputs \cup AddInputs |->
                    roundToTwoDecimals(AmountValue[m])]

VARIABLES
  now,      \* the wall clock, ms: new Date()
  goal,     \* the JsonDB document at /goal
  lastOp,   \* the last GoalManager call: its arguments and how it returned
  day,      \* the calendar day of the wall clock: day 0 is 1 January 2024
            \* that is the first of a month
  timers,   \* the interval timers of the runtime that have not been cleared
  activePollingInterval,  \* the handle goal.ts keeps, or none
  tasks,    \* the async calls suspended at an await
  puts      \* the goal-reset PUTs sent to StreamElements on this day

vars == <<now, goal, lastOp, day, timers, activePollingInterval, tasks, puts>>

\* what the ledger and the sync leave alone: the calendar and the scheduler
pollVars == <<day, timers, activePollingInterval, tasks, puts>>

\* what a finished call leaves to see: the operation and how it returned
\* ("ok", "null" or "throw"), and for an updateLocalDonation that did not
\* throw the donation it was called with and when; sent lists the messages
\* the step handed to webServer.sendToOverlay
Returned(op, ret) == [op |-> op, ret |-> ret, name |-> <<>>, amount |-> 0,
                      at |-> 0, sent |-> <<>>]

NoOp == Returned("none", "none")

\* the database before the first push: no /goal path
NoGoal == [exists |-> FALSE, uuid |-> None, config |-> None,
           createdAt |-> None, updatedAt |-> None,
           streamElements |-> None, extraLife |-> None,
           localDonations |-> None]

emptyLocalData(t) ==
  [data |-> [donations |-> <<>>,
             overall_total |-> [amount |-> FZero, donation_count |-> 0],
             metadata |-> [lastUpdated |-> t]]]

\* this._db.push('/goal/localDonations', data): creates /goal when missing
PushLocalDonations(g, data) ==
  [g EXCEPT !.exists = TRUE, !.localDonations = Some(data)]

\* Array.prototype.findIndex over the outcomes of the test on each element:
\* the first index whose test holds, 0 for -1
FindIndex(hits) ==
  IF \E i \in 1..Len(hits) : hits[i]
  THEN CHOOSE i \in 1..Len(hits) : hits[i] /\ \A j \in 1..(i - 1) : ~hits[j]
  ELSE 0

\* donors.findIndex(d => d.name.toLowerCase() === name.toLowerCase())
FindDonor(donors, name) ==
  FindIndex([i \in 1..Len(donors) |->
               toLowerCase(donors[i].name) = toLowerCase(name)])

\* donations.findIndex(d => d.timestamp === timestamp)
FindDonation(donations, timestamp) ==
  FindIndex([i \in 1..Len(donations) |-> donations[i].timestamp = timestamp])

\* Array.prototype.splice(index, 1)
Splice1(seq, index) ==
  SubSeq(seq, 1, index - 1) \o SubSeq(seq, index + 1, Len(seq))

Abs(n) == IF n < 0 THEN -n ELSE n

RECURSIVE SumLen(_)
SumLen(donors) ==
  IF donors = <<>> THEN 0
  ELSE Len(donors[1].individual_donations) + SumLen(Tail(donors))

\* the individual donations the stored ledger holds
StoredDonations(g) ==
  IF IsSome(g.localDonations)
  THEN SumLen(Get(g.localDonations).data.donations)
  ELSE 0

(***************************************************************************)
(* The local ledger (GoalManager.updateLocalDonation, removeLocalDonation, *)
(* resetUserDonations, resetLocalData).  Each call reads                   *)
(* /goal/localDonations, changes the object and pushes it back.            *)
(***************************************************************************)
SameDonor(donor, name) == toLowerCase(donor.name) = toLowerCase(name)

\* a duplicate test that compares the names as written
isDuplicateByExactName(donations, name, newDonation) ==
  \E i \in 1..Len(donations) :
    /\ donations[i].name = name
    /\ \E j \in 1..Len(donations[i].individual_donations) :
         LET d == donations[i].individual_donations[j]
         IN  /\ d.amount = newDonation.amount
             /\ Abs(d.timestamp - newDonation.timestamp) < DupWindow

\* a duplicate test without the time window
isDuplicateAtAnyTime(donations, name, newDonation) ==
  \E i \in 1..Len(donations) :
    /\ SameDonor(donations[i], name)
    /\ \E j \in 1..Len(donations[i].individual_donations) :
         donations[i].individual_donations[j].amount = newDonation.amount

\* the isDuplicate test of updateLocalDonation
isDuplicate(donations, name, newDonation) ==
  \E i \in 1..Len(donations) :
    /\ SameDonor(donations[i], name)
    /\ \E j \in 1..Len(donations[i].individual_donations) :
         LET d == donations[i].individual_donations[j]
         IN  /\ d.amount = newDonation.amount
             /\ Abs(d.timestamp - newDonation.timestamp) < DupWindow

\* the ledger after the donation is entered for the donor (found or created)
WithDonation(cur, name, newDonation) ==
  LET found  == FindDonor(cur.data.donations, name)
      donors == IF found = 0
                THEN Append(cur.data.donations,
                            [name |-> name, individual_donations |-> <<>>,
                             total_amount |-> FZero, total_donations |-> 0])
                ELSE cur.data.donations
      idx    == IF found = 0 THEN Len(donors) ELSE found
      donor  == donors[idx]
  IN  [data |->
        [donations |->
           [donors EXCEPT ![idx] =
              [name |-> donor.name,
               individual_donations |->
                 Append(donor.individual_donations, newDonation),
               total_amount |-> safeAdd(donor.total_amount, newDonation.amount),
               total_donations |-> donor.total_donations + 1]],
         overall_total |->
           [amount |-> safeAdd(cur.data.overall_total.amount,
                               newDonation.amount),
            donation_count |-> cur.data.overall_total.donation_count + 1],
         metadata |-> [lastUpdated |-> newDonation.timestamp]]]

updateLocalDonation(name, m) ==
  LET amount      == AmountValue[m]
      cur         == IF IsSome(goal.localDonations)
                     THEN Get(goal.localDonations)
                     ELSE emptyLocalData(now)
      newDonation == [amount |-> RoundedAmount[m],
                      timestamp |-> now, donationType |-> "local"]
      call        == [Returned("add", "ok") EXCEPT !.name = name,
                                                   !.amount = m, !.at = now]
  IN  /\ UNCHANGED <<now, pollVars>>
      /\ IF FLeq(amount, FZero)
         THEN /\ lastOp' = Returned("add", "throw")
              /\ UNCHANGED goal
         ELSE IF isDuplicate(cur.data.donations, name, newDonation)
         THEN /\ lastOp' = [call EXCEPT !.ret = "null"]
              /\ UNCHANGED goal
         ELSE /\ StoredDonations(goal) < MaxDonations
              /\ lastOp' = call
              /\ goal' = PushLocalDonations(goal,
                           WithDonation(cur, name, newDonation))

\* the donor and donation removeLocalDonation settles on: the first donation
\* with the timestamp in the last donor that has one
HasTimestamp(donor, timestamp) ==
  FindDonation(donor.individual_donations, timestamp) # 0

LastDonorWith(donations, timestamp) ==
  IF \E i \in 1..Len(donations) : HasTimestamp(donations[i], timestamp)
  THEN CHOOSE i \in 1..Len(donations) :
         /\ HasTimestamp(donations[i], timestamp)
         /\ \A j \in (i + 1)..Len(donations) :
              ~HasTimestamp(donations[j], timestamp)
  ELSE 0

\* a removal that keeps a donor left without donations
WithoutDonationKeepingDonor(cur, donorIndex, timestamp, at) ==
  LET donor           == cur.data.donations[donorIndex]
      donationIndex   == FindDonation(donor.individual_donations, timestamp)
      removedDonation == donor.individual_donations[donationIndex]
      updated         == [name |-> donor.name,
                          individual_donations |->
                            Splice1(donor.individual_donations, donationIndex),
                          total_amount |-> Minus(donor.total_amount,
                                                 removedDonation.amount),
                          total_donations |-> donor.total_donations - 1]
  IN  [data |->
        [donations |-> [cur.data.donations EXCEPT ![donorIndex] = updated],
         overall_total |->
           [amount |-> Minus(cur.data.overall_total.amount,
                             removedDonation.amount),
            donation_count |-> cur.data.overall_total.donation_count - 1],
         metadata |-> [cur.data.metadata EXCEPT !.lastUpdated = at]]]

WithoutDonation(cur, donorIndex, timestamp, at) ==
  LET donor           == cur.data.donations[donorIndex]
      donationIndex   == FindDonation(donor.individual_donations, timestamp)
      removedDonation == donor.individual_donations[donationIndex]
      rest            == Splice1(donor.individual_donations, donationIndex)
      updated         == [name |-> donor.name,
                          individual_donations |-> rest,
                          total_amount |-> Minus(donor.total_amount,
                                                 removedDonation.amount),
                          total_donations |-> donor.total_donations - 1]
  IN  [data |->
        [donations |->
           IF rest = <<>>
           THEN Splice1(cur.data.donations, donorIndex)
           ELSE [cur.data.donations EXCEPT ![donorIndex] = updated],
         overall_total |->
           [amount |-> Minus(cur.data.overall_total.amount,
                             removedDonation.amount),
            donation_count |-> cur.data.overall_total.donation_count - 1],
         metadata |-> [cur.data.metadata EXCEPT !.lastUpdated = at]]]

\* a removal that reports success and stamps the ledger when nothing matches
removeLocalDonationQuietly(timestamp) ==
  LET cur == IF IsSome(goal.localDonations)
             THEN Get(goal.localDonations)
             ELSE emptyLocalData(now)
      donorIndex == LastDonorWith(cur.data.donations, timestamp)
  IN  /\ UNCHANGED <<now, pollVars>>
      /\ lastOp' = Returned("remove", "ok")
      /\ goal' = PushLocalDonations(goal,
                   IF donorIndex = 0
                   THEN [cur EXCEPT !.data.metadata.lastUpdated = now]
                   ELSE WithoutDonation(cur, donorIndex, timestamp, now))

removeLocalDonation(timestamp) ==
  LET call == Returned("remove", "ok")
  IN  /\ UNCHANGED <<now, pollVars>>
      /\ IF ~IsSome(goal.localDonations)
         THEN /\ lastOp' = [call EXCEPT !.ret = "throw"]
              /\ UNCHANGED goal
         ELSE LET cur        == Get(goal.localDonations)
                  donorIndex == LastDonorWith(cur.data.donations, timestamp)
              IN  IF donorIndex = 0
                  THEN /\ lastOp' = [call EXCEPT !.ret = "throw"]
                       /\ UNCHANGED goal
                  ELSE /\ lastOp' = call
                       /\ goal' = PushLocalDonations(goal,
                                    WithoutDonation(cur, donorIndex, timestamp,
                                                    now))

\* a donor reset that leaves overall_total as it was
WithoutDonorKeepingTotals(cur, donorIndex, at) ==
  [data |->
    [donations |-> Splice1(cur.data.donations, donorIndex),
     overall_total |-> cur.data.overall_total,
     metadata |-> [cur.data.metadata EXCEPT !.lastUpdated = at]]]

WithoutDonor(cur, donorIndex, at) ==
  LET donor == cur.data.donations[donorIndex]
  IN  [data |->
        [donations |-> Splice1(cur.data.donations, donorIndex),
         overall_total |->
           [amount |-> roundToTwoDecimals(
                         Minus(cur.data.overall_total.amount,
                               donor.total_amount)),
            donation_count |-> cur.data.overall_total.donation_count
                                 - donor.total_donations],
         metadata |-> [cur.data.metadata EXCEPT !.lastUpdated = at]]]

resetUserDonations(userName) ==
  LET call == Returned("resetUser", "ok")
  IN  /\ UNCHANGED <<now, pollVars>>
      /\ IF ~IsSome(goal.localDonations)
         THEN /\ lastOp' = [call EXCEPT !.ret = "throw"]
              /\ UNCHANGED goal
         ELSE LET cur        == Get(goal.localDonations)
                  donorIndex == FindDonor(cur.data.donations, userName)
              IN  IF donorIndex = 0
                  THEN /\ lastOp' = [call EXCEPT !.ret = "throw"]
                       /\ UNCHANGED goal
                  ELSE /\ lastOp' = call
                       /\ goal' = PushLocalDonations(goal,
                                    WithoutDonor(cur, donorIndex, now))

\* a reset that clears the totals and keeps the donors
resetLocalTotals ==
  LET cur == IF IsSome(goal.localDonations)
             THEN Get(goal.localDonations)
             ELSE emptyLocalData(now)
  IN  /\ UNCHANGED <<now, pollVars>>
      /\ lastOp' = Returned("resetLocal", "ok")
      /\ goal' = PushLocalDonations(goal,
                   [cur EXCEPT !.data.overall_total =
                                 emptyLocalData(now).data.overall_total,
                               !.data.metadata.lastUpdated = now])

resetLocalData ==
  /\ UNCHANGED <<now, pollVars>>
  /\ lastOp' = Returned("resetLocal", "ok")
  /\ goal' = PushLocalDonations(goal, emptyLocalData(now))

\* time passes between calls
Tick ==
  /\ \E t \in Instants : t > now /\ now' = t
  /\ UNCHANGED <<goal, lastOp, pollVars>>

Init ==
  /\ now = 0
  /\ goal = NoGoal
  /\ lastOp = NoOp
  /\ day = 0
  /\ timers = {}
  /\ activePollingInterval = None
  /\ tasks = {}
  /\ puts = 0

Next ==
  \/ \E name \in Names, m \in AmountInputs : updateLocalDonation(name, m)
  \/ \E timestamp \in Instants : removeLocalDonation(timestamp)
  \/ \E userName \in Names : resetUserDonations(userName)
  \/ resetLocalData
  \/ Tick

Spec == Init /\ [][Next]_vars

\* the ledger that only grows: donations of two decimals added in any order
AddNext ==
  \/ \E name \in Names, m \in AddInputs : updateLocalDonation(name, m)
  \/ Tick

AddSpec == Init /\ [][AddNext]_vars

(***************************************************************************)
(* Values of JavaScript as the sources hand them over and /goal stores     *)
(* them: null, undefined, booleans, numbers, strings, arrays, and objects  *)
(* as functions from their keys.                                           *)
(***************************************************************************)
JNull == [t |-> "null"]
JUndefined == [t |-> "undefined"]
JBool(b) == [t |-> "boolean", bool |-> b]
\* the doubles of the whole numbers that occur often, computed once
WholeDoubles == [n \in (0..100) \cup {2023, 2024} |-> FRatio(FALSE, n, 1)]

\* the number of a whole n >= 0, and any number
JNum(n) == [t |-> "number",
            num |-> IF n \in DOMAIN WholeDoubles THEN WholeDoubles[n]
                    ELSE FRatio(FALSE, n, 1)]
JFloat(x) == [t |-> "number", num |-> x]
JStr(str) == [t |-> "string", str |-> str]
JArr(items) == [t |-> "array", items |-> items]
JObj(props) == [t |-> "object", props |-> props]

\* the ms after the start of the clock of the date strings the payloads carry
DateStrings == [str \in {"2024-01-01T00:00:00.000Z", "2024-01-01T00:00:00Z",
                         "2024-01-01T00:00:05.000Z"} |->
                  IF str = "2024-01-01T00:00:05.000Z" THEN 5000 ELSE 0]

(***************************************************************************)
(* The calendar.  The clock starts at 2024-01-01T00:00:00.000Z, a Monday;  *)
(* day counts the days since, now the ms of the day, and local time is     *)
(* UTC.                                                                    *)
(***************************************************************************)
MonthLength == 31

\* the days the clock visits: the 1st and 2nd of January and of February,
\* two Sundays and the Monday between them
Days == {0, 1, 6, 7, 13, 31, 32}

\* Date.getDay(), getDate(), getMonth() and getFullYear()
getDay(d) == (d + 1) % 7
getDate(d) == IF d < 0 THEN d + 32
              ELSE IF d < MonthLength THEN d + 1 ELSE d - MonthLength + 1
getMonth(d) == IF d < 0 THEN 11 ELSE IF d < MonthLength THEN 0 ELSE 1
getFullYear(d) == IF d < 0 THEN 2023 ELSE 2024

\* new Date().toISOString() at ms t of day d, for the instants the clock
\* takes
toISOString(d, t) ==
  IF d = 0
  THEN CASE t = 0    -> "2024-01-01T00:00:00.000Z"
         [] t = 1    -> "2024-01-01T00:00:00.001Z"
         [] t = 5000 -> "2024-01-01T00:00:05.000Z"
         [] t = 5001 -> "2024-01-01T00:00:05.001Z"
  ELSE CASE d = 1  -> "2024-01-02T00:00:00.000Z"
         [] d = 6  -> "2024-01-07T00:00:00.000Z"
         [] d = 7  -> "2024-01-08T00:00:00.000Z"
         [] d = 13 -> "2024-01-14T00:00:00.000Z"
         [] d = 31 -> "2024-02-01T00:00:00.000Z"
         [] d = 32 -> "2024-02-02T00:00:00.000Z"

\* an event of the last second of 2023
LastYear == "2023-12-31T23:59:59.000Z"

\* the first and the last seconds of days that no clock above reaches, by day
DayEnds == [str \in {"2023-12-30T23:59:59.000Z", "2024-01-06T23:59:59.000Z",
                     "2024-01-31T23:59:59.000Z"} |->
              IF str = "2023-12-30T23:59:59.000Z" THEN -2
              ELSE IF str = "2024-01-06T23:59:59.000Z" THEN 5 ELSE 30]
Sunday2023 == "2023-12-31T00:00:00.000Z"

\* the instants that have a string above
Clock == {<<0, t>> : t \in Instants} \cup {<<d, 0>> : d \in Days}

\* new Date(str).getTime() as the day and the ms of the day; None for NaN
\* (not a date)
getTime(str) ==
  IF str \in DOMAIN DateStrings THEN Some(<<0, DateStrings[str]>>)
  ELSE IF str = LastYear THEN Some(<<-1, 86399000>>)
  ELSE IF str \in DOMAIN DayEnds THEN Some(<<DayEnds[str], 86399000>>)
  ELSE IF str = Sunday2023 THEN Some(<<-1, 0>>)
  ELSE IF \E i \in Clock : toISOString(i[1], i[2]) = str
  THEN Some(CHOOSE i \in Clock : toISOString(i[1], i[2]) = str)
  ELSE None

\* !x
Falsy(x) ==
  \/ x.t \in {"null", "undefined"}
  \/ x.t = "boolean" /\ ~x.bool
  \/ x.t = "number" /\ x.num = FZero
  \/ x.t = "string" /\ x.str = ""

\* obj1 === obj2: primitives by value; the arrays and objects compared are
\* separate objects (the stored ones and the ones just built from a response)
StrictEquals(obj1, obj2) ==
  /\ obj1.t = obj2.t
  /\ obj1.t \notin {"array", "object"}
  /\ obj1 = obj2

IndexKeys == <<"0", "1", "2">>

\* Object.keys(x) and x[key] of an array or object
Keys(x) == IF x.t = "array" THEN {IndexKeys[i] : i \in 1..Len(x.items)}
           ELSE DOMAIN x.props

Prop(x, key) ==
  IF key \notin Keys(x) THEN JUndefined
  ELSE IF x.t = "array"
  THEN x.items[CHOOSE i \in 1..Len(x.items) : IndexKeys[i] = key]
  ELSE x.props[key]

\* a comparison by === alone
isEqualByIdentity(obj1, obj2) == StrictEquals(obj1, obj2)

RECURSIVE isEqual(_, _)
isEqual(obj1, obj2) ==
  IF StrictEquals(obj1, obj2) THEN TRUE
  ELSE IF Falsy(obj1) \/ Falsy(obj2) THEN FALSE
  ELSE IF /\ obj1.t = "string" /\ obj2.t = "string"
          /\ IsSome(getTime(obj1.str)) /\ IsSome(getTime(obj2.str))
  THEN getTime(obj1.str) = getTime(obj2.str)
  ELSE IF obj1.t = "array" /\ obj2.t = "array"
  THEN /\ Len(obj1.items) = Len(obj2.items)
       /\ \A index \in 1..Len(obj1.items) :
            isEqual(obj1.items[index], obj2.items[index])
  ELSE IF obj1.t \in {"array", "object"} /\ obj2.t \in {"array", "object"}
  THEN /\ Cardinality(Keys(obj1)) = Cardinality(Keys(obj2))
       /\ \A key \in Keys(obj1) : isEqual(Prop(obj1, key), Prop(obj2, key))
  ELSE StrictEquals(obj1, obj2)

(***************************************************************************)
(* The /goal document (GoalManager.updateGoalData, syncExternalData) and   *)
(* the effect that starts a goal.                                          *)
(***************************************************************************)
Sources == {"streamElements", "extraLife"}

\* the goals the effect is run with: uuid stands for uuid and overlayInstance
Sessions == {[uuid |-> "goal-1", config |-> "config-1"],
             [uuid |-> "goal-1", config |-> "config-2"]}

\* what the calls of updateGoalData hand over besides a whole document
GoalUpdate(session) ==
  [NoGoal EXCEPT !.uuid = Some(session.uuid),
                 !.config = Some(session.config)]

\* an update that stores what it is handed and nothing else
updateGoalDataAnew(g, data, t) ==
  [data EXCEPT !.exists = TRUE, !.updatedAt = Some(t)]

\* an update that stores the sources it is handed and drops the ledger
updateGoalDataOfSources(g, data, t) ==
  [data EXCEPT !.exists = TRUE, !.updatedAt = Some(t),
               !.localDonations = None]

\* the document updateGoalData pushes at /goal for data at time t
updateGoalData(g, data, t) ==
  LET currentState == IF g.exists THEN g
                      ELSE [NoGoal EXCEPT !.exists = TRUE,
                                          !.uuid = data.uuid,
                                          !.config = data.config,
                                          !.createdAt = Some(t)]
      config         == IF IsSome(data.config) THEN data.config
                        ELSE currentState.config
      \* a field the given record lacks is copied as undefined and is not
      \* in the stored JSON; lastGoalReset is kept as a key of its own
      streamElements == IF IsSome(data.streamElements)
                        THEN LET e == Get(data.streamElements)
                             IN  Some([field \in (DOMAIN e \cap {"lastUpdated", "data"})
                                                   \cup {"lastGoalReset"} |->
                                         IF field \in DOMAIN e THEN e[field]
                                         ELSE None])
                        ELSE currentState.streamElements
      extraLife      == IF IsSome(data.extraLife)
                        THEN LET e == Get(data.extraLife)
                             IN  Some([field \in DOMAIN e \cap {"lastUpdated", "data"} |->
                                         e[field]])
                        ELSE currentState.extraLife
      \* for the ledger the lastUpdated copied is undefined: the stored
      \* object keeps its data only
      localDonations == IF IsSome(data.localDonations)
                        THEN Some([data |-> Get(data.localDonations).data])
                        ELSE currentState.localDonations
  IN  [currentState EXCEPT !.config = config,
                           !.streamElements = streamElements,
                           !.extraLife = extraLife,
                           !.localDonations = localDonations,
                           !.updatedAt = Some(t)]

\* the goal-tracker effect: goalManager.updateGoalData(baseGoalState)
StartGoal(session) ==
  /\ UNCHANGED <<now, pollVars>>
  /\ lastOp' = Returned("start", "ok")
  /\ goal' = updateGoalData(goal, GoalUpdate(session), now)

\* payloads as the polls build them
ExtraLifeDonation ==
  JObj([amount |-> JNum(5), displayName |-> JStr("Ada"),
        message |-> JStr(""), donationID |-> JStr("donation"),
        createdDateUTC |-> JStr("2024-01-01T00:00:00.000Z"),
        eventID |-> JStr("event")])

ExtraLifeData(sum, updated) ==
  JObj([sumDonations |-> JNum(sum), fundraisingGoal |-> JNum(100),
        donations |-> JArr(IF sum = 0 THEN <<>> ELSE <<ExtraLifeDonation>>),
        metadata |-> JObj([lastUpdated |-> JStr(updated),
                           participantId |-> JStr("participant"),
                           eventID |-> JStr("event")])])

StreamElementsDonor ==
  JObj([name |-> JStr("Ada"),
        individual_donations |->
          JArr(<<JObj([amount |-> JNum(5),
                       timestamp |-> JStr("2024-01-01T00:00:00.000Z"),
                       donationType |-> JStr("tip")])>>),
        total_amount |-> JNum(5), total_donations |-> JNum(1)])

StreamElementsData(sum, updated) ==
  JObj([current |->
          JObj([donations |->
                  JArr(IF sum = 0 THEN <<>> ELSE <<StreamElementsDonor>>),
                overall_total |->
                  JObj([amount |-> JNum(sum),
                        donation_count |->
                          JNum(IF sum = 0 THEN 0 ELSE 1)])]),
        metadata |-> JObj([month |-> JNum(0), year |-> JNum(2024),
                           lastUpdated |-> JStr(updated)])])

Sums == {0, 5}

Payloads ==
  [source \in Sources |->
     IF source = "extraLife"
     THEN {ExtraLifeData(sum, updated) :
             sum \in Sums, updated \in DOMAIN DateStrings}
     ELSE {StreamElementsData(sum, updated) :
             sum \in Sums, updated \in DOMAIN DateStrings}]

\* goalState[source]?.data: undefined when the source or its data is missing
StoredData(g, source) ==
  IF IsSome(g[source]) /\ "data" \in DOMAIN Get(g[source])
  THEN Get(g[source]).data
  ELSE JUndefined

\* a sync that writes the record without the lastGoalReset stored before
SyncedAfresh(g, source, newData, t) ==
  IF ~g.exists \/ (~Falsy(StoredData(g, source))
                     /\ isEqual(StoredData(g, source), newData))
  THEN [ret |-> "false", goal |-> g]
  ELSE [ret |-> "true",
        goal |-> updateGoalData(g, [g EXCEPT ![source] =
                                      Some([lastUpdated |-> t,
                                            lastGoalReset |-> None,
                                            data |-> newData])], t)]

\* what syncExternalData returns at time t and the document it leaves
Synced(g, source, newData, t) ==
  LET stored == g[source]
      currentData == StoredData(g, source)
      \* goalState[source]?.lastGoalReset
      lastGoalReset == IF IsSome(stored)
                          /\ "lastGoalReset" \in DOMAIN Get(stored)
                       THEN Get(stored).lastGoalReset
                       ELSE None
      goalState == [g EXCEPT ![source] =
                      Some([lastUpdated |-> t,
                            lastGoalReset |-> lastGoalReset,
                            data |-> newData])]
  IN  IF ~g.exists
      THEN [ret |-> "false", goal |-> g]
      ELSE IF ~Falsy(currentData) /\ isEqual(currentData, newData)
      THEN [ret |-> "false", goal |-> g]
      ELSE [ret |-> "true", goal |-> updateGoalData(g, goalState, t)]

syncExternalData(source, newData) ==
  LET done == Synced(goal, source, newData, now)
  IN  /\ UNCHANGED <<now, pollVars>>
      /\ lastOp' = [Returned("sync", done.ret) EXCEPT !.name = <<source>>]
      /\ goal' = done.goal

SyncNext ==
  \/ \E session \in Sessions : StartGoal(session)
  \/ \E source \in Sources :
       \E newData \in Payloads[source] : syncExternalData(source, newData)
  \/ Tick

SyncSpec == Init /\ [][SyncNext]_vars

\* goals, syncs and the ledger together: one payload per source
UpdatePayloads ==
  [source \in Sources |->
     {data \in Payloads[source] :
        /\ data.props.metadata.props.lastUpdated = JStr("2024-01-01T00:00:00.000Z")
        /\ data \in {ExtraLifeData(5, "2024-01-01T00:00:00.000Z"),
                      StreamElementsData(5, "2024-01-01T00:00:00.000Z")}}]

UpdateNext ==
  \/ \E session \in Sessions : StartGoal(session)
  \/ \E source \in Sources :
       \E newData \in UpdatePayloads[source] : syncExternalData(source, newData)
  \/ updateLocalDonation(<<"A", "d", "a">>, 100)
  \/ Tick

UpdateSpec == Init /\ [][UpdateNext]_vars

(***************************************************************************)
(* GoalManager.resetGoalValuesIfNeeded: the goal-reset PUT of a period.    *)
(***************************************************************************)
SummaryTypes == {"weekly", "monthly"}

\* this._db.getData('/goal/streamElements/lastGoalReset') throws when the
\* path has no such key
HasLastGoalReset(g) ==
  /\ g.exists
  /\ IsSome(g.streamElements)
  /\ "lastGoalReset" \in DOMAIN Get(g.streamElements)

\* lastReset.getDate() !== now.getDate(): the date of an Invalid Date is NaN
DateDiffers(lastGoalReset, d) ==
  \/ ~IsSome(lastGoalReset)
  \/ getDate(Get(lastGoalReset).day) # getDate(d)

shouldReset(g, summaryType, d) ==
  IF ~HasLastGoalReset(g) THEN TRUE
  ELSE IF summaryType = "weekly"
  THEN getDay(d) = 0 /\ DateDiffers(Get(g.streamElements).lastGoalReset, d)
  ELSE getDate(d) = 1 /\ DateDiffers(Get(g.streamElements).lastGoalReset, d)

\* this._db.push(lastResetKey, now.toISOString())
PushLastGoalReset(g, d, t) ==
  LET stamp == Some([day |-> d, ms |-> t])
  IN  IF IsSome(g.streamElements)
      THEN [g EXCEPT !.streamElements =
              Some([field \in DOMAIN Get(g.streamElements) \cup {"lastGoalReset"} |->
                      IF field = "lastGoalReset" THEN stamp
                      ELSE Get(g.streamElements)[field]])]
      ELSE [g EXCEPT !.streamElements = Some([lastGoalReset |-> stamp])]

\* the document the call leaves, the PUTs the platform accepted, and whether
\* it threw; ok is response.ok of the PUT
resetGoalValuesIfNeeded(g, summaryType, d, t, ok) ==
  IF ~shouldReset(g, summaryType, d)
  THEN [goal |-> g, puts |-> 0, threw |-> FALSE]
  ELSE IF ~ok
  THEN [goal |-> g, puts |-> 0, threw |-> TRUE]
  ELSE [goal |-> PushLastGoalReset(g, d, t), puts |-> 1, threw |-> FALSE]

(***************************************************************************)
(* GoalManager.processStreamElementsData: the donors of a period built     *)
(* from the session data of StreamElements.                                *)
(***************************************************************************)
\* name.toLowerCase() of the names the events carry
LowerNames == [name \in {"Ada", "ada", "Bob"} |->
                 IF name = "Bob" THEN "bob" ELSE "ada"]

\* the day of new Date(timestamp)
DayOf(timestamp) == Get(getTime(timestamp))[1]

isCurrentMonth(dateStr, currentMonth, currentYear) ==
  /\ getMonth(DayOf(dateStr)) = currentMonth
  /\ getFullYear(DayOf(dateStr)) = currentYear

\* a < b of two instants
Earlier(a, b) == a[1] < b[1] \/ (a[1] = b[1] /\ a[2] < b[2])

\* a week that has the instant of the next Sunday in it
isCurrentWeekToSunday(dateStr, d) ==
  LET date == Get(getTime(dateStr))
  IN  /\ ~Earlier(date, <<d - getDay(d), 0>>)
      /\ ~Earlier(<<d - getDay(d) + 7, 0>>, date)

\* weekStart is the Sunday at or before day d, 00:00; weekEnd 7 days later
isCurrentWeek(dateStr, d) ==
  LET date      == Get(getTime(dateStr))
      weekStart == <<d - getDay(d), 0>>
      weekEnd   == <<d - getDay(d) + 7, 0>>
  IN  ~Earlier(date, weekStart) /\ Earlier(date, weekEnd)

isInCurrentPeriod(timestamp, summaryType, d, currentMonth, currentYear) ==
  IF summaryType = "monthly"
  THEN isCurrentMonth(timestamp, currentMonth, currentYear)
  ELSE isCurrentWeek(timestamp, d)

\* a donation and a donor as the JSON value that is stored and sent
DonationJson(donation) ==
  LET base == [amount |-> JFloat(donation.amount),
               timestamp |-> JStr(donation.timestamp),
               donationType |-> JStr(donation.donationType)]
  IN  IF donation.subTier = "" THEN JObj(base)
      ELSE JObj([key \in DOMAIN base \cup {"subTier"} |->
                   IF key = "subTier" THEN JStr(donation.subTier)
                   ELSE base[key]])

DonorJson(donor) ==
  JObj([name |-> JStr(donor.name),
        individual_donations |->
          JArr([i \in 1..Len(donor.individual_donations) |->
                  DonationJson(donor.individual_donations[i])]),
        total_amount |-> JFloat(donor.total_amount),
        total_donations |-> JNum(donor.total_donations)])

DonationOfJson(j) ==
  [amount |-> j.props.amount.num,
   timestamp |-> j.props.timestamp.str,
   donationType |-> j.props.donationType.str,
   subTier |-> IF "subTier" \in DOMAIN j.props THEN j.props.subTier.str
               ELSE ""]

RECURSIVE InPeriod(_, _, _, _, _)
InPeriod(donations, summaryType, d, currentMonth, currentYear) ==
  IF donations = <<>> THEN <<>>
  ELSE LET rest == InPeriod(Tail(donations), summaryType, d, currentMonth,
                            currentYear)
       IN  IF isInCurrentPeriod(Head(donations).timestamp, summaryType, d,
                                currentMonth, currentYear)
           THEN <<Head(donations)>> \o rest
           ELSE rest

RECURSIVE SumAmounts(_)
SumAmounts(donations) ==
  IF donations = <<>> THEN FZero
  ELSE safeAdd(SumAmounts(SubSeq(donations, 1, Len(donations) - 1)),
               donations[Len(donations)].amount)

\* previousData.donations carried over with every donation kept
CarriedUnfiltered(items, summaryType, d, currentMonth, currentYear) ==
  [i \in 1..Len(items) |->
     LET all == [k \in 1..Len(items[i].props.individual_donations.items) |->
                   DonationOfJson(items[i].props.individual_donations.items[k])]
     IN  [name |-> items[i].props.name.str,
          individual_donations |-> all,
          total_amount |-> roundToTwoDecimals(SumAmounts(all)),
          total_donations |-> Len(all)]]

\* previousData.donations with the donations of older periods dropped, the
\* donors left without donations dropped, and the totals recalculated
RECURSIVE CarriedDonors(_, _, _, _, _)
CarriedDonors(items, summaryType, d, currentMonth, currentYear) ==
  IF items = <<>> THEN <<>>
  ELSE LET j    == Head(items)
           kept == InPeriod([i \in 1..Len(j.props.individual_donations.items) |->
                               DonationOfJson(j.props.individual_donations.items[i])],
                            summaryType, d, currentMonth, currentYear)
           rest == CarriedDonors(Tail(items), summaryType, d, currentMonth,
                                 currentYear)
       IN  IF kept = <<>> THEN rest
           ELSE <<[name |-> j.props.name.str,
                   individual_donations |-> kept,
                   total_amount |-> roundToTwoDecimals(SumAmounts(kept)),
                   total_donations |-> Len(kept)]>> \o rest

RECURSIVE SumTotals(_)
SumTotals(donors) ==
  IF donors = <<>> THEN FZero
  ELSE safeAdd(SumTotals(SubSeq(donors, 1, Len(donors) - 1)),
               donors[Len(donors)].total_amount)

\* seResult before the events are added
StartingResult(previousData, summaryType, d, currentMonth, currentYear) ==
  LET donations ==
        IF previousData.t = "object" /\ "donations" \in DOMAIN previousData.props
           /\ previousData.props.donations.t = "array"
        THEN CarriedDonors(previousData.props.donations.items, summaryType, d,
                           currentMonth, currentYear)
        ELSE <<>>
  IN  [donations |-> donations,
       amount |-> SumTotals(donations),
       donation_count |-> SumLen(donations)]

\* the first donor of that name, 0 if there is none
FindEventDonor(donors, name) ==
  FindIndex([i \in 1..Len(donors) |->
               LowerNames[donors[i].name] = LowerNames[name]])

\* donor.individual_donations.some(d => d.amount === amount &&
\* d.timestamp === timestamp)
HasDonation(donations, amount, timestamp) ==
  \E i \in 1..Len(donations) :
    donations[i].amount = amount /\ donations[i].timestamp = timestamp

\* seResult.donations with the donor of the name, created when missing;
\* previousData.localDonations is undefined on the stored record
DonorsWith(donors, name) ==
  IF FindEventDonor(donors, name) # 0 THEN donors
  ELSE Append(donors, [name |-> name, individual_donations |-> <<>>,
                       total_amount |-> roundToTwoDecimals(FZero),
                       total_donations |-> 0])

\* the donation entered for the donor unless it is a duplicate
Entered(seResult, donors, index, amount, numericAmount, timestamp, donationType, subTier) ==
  IF HasDonation(donors[index].individual_donations, amount, timestamp)
  THEN [seResult EXCEPT !.donations = donors]
  ELSE [donations |->
          [donors EXCEPT ![index] =
             [@ EXCEPT
                !.individual_donations =
                   Append(@, [amount |-> numericAmount,
                              timestamp |-> timestamp,
                              donationType |-> donationType,
                              subTier |-> subTier]),
                !.total_amount = safeAdd(@, numericAmount),
                !.total_donations = @ + 1]],
        amount |-> safeAdd(seResult.amount, numericAmount),
        donation_count |-> seResult.donation_count + 1]

EnteredFor(seResult, donors, name, amount, timestamp, donationType, subTier) ==
  Entered(seResult, donors, FindEventDonor(donors, name), amount,
          roundToTwoDecimals(amount), timestamp, donationType, subTier)

addDonation(seResult, name, amount, timestamp, donationType, subTier) ==
  EnteredFor(seResult, DonorsWith(seResult.donations, name), name, amount,
             timestamp, donationType, subTier)

\* the value of a subscription of that tier
subValue(tier, subValues) ==
  IF tier = "2000" THEN subValues.tier2
  ELSE IF tier = "3000" THEN subValues.tier3
  ELSE IF tier = "prime" THEN subValues.prime
  ELSE subValues.tier1

\* the donor of a subscription: the sender of the latest gift when the gift
\* went to that subscriber at that tier
subDonorName(sub, latestGifted) ==
  IF /\ IsSome(latestGifted)
     /\ Get(latestGifted).name = sub.name
     /\ Get(latestGifted).tier = sub.tier
  THEN Get(latestGifted).sender
  ELSE sub.name

\* the events of one list in the order of the list: each event in the
\* period adds its value to the total of the list and goes to addDonation
RECURSIVE AddSubscribers(_, _, _, _, _, _)
AddSubscribers(acc, subs, latestGifted, config, d, period) ==
  IF subs = <<>> THEN acc
  ELSE LET sub   == Head(subs)
           value == subValue(sub.tier, config.subscriptionValues)
           next  ==
             IF isInCurrentPeriod(sub.createdAt, period.summaryType, d,
                                  period.month, period.year)
             THEN [result |-> addDonation(acc.result,
                                          subDonorName(sub, latestGifted),
                                          value, sub.createdAt,
                                          "subscription", sub.tier),
                   total |-> FAdd(acc.total, value)]
             ELSE acc
       IN  AddSubscribers(next, Tail(subs), latestGifted, config, d, period)

RECURSIVE AddCheers(_, _, _, _, _)
AddCheers(acc, cheers, config, d, period) ==
  IF cheers = <<>> THEN acc
  ELSE LET cheer      == Head(cheers)
           cheerValue == FMulInt(config.bitsValue, cheer.amount)
           next ==
             IF isInCurrentPeriod(cheer.createdAt, period.summaryType, d,
                                  period.month, period.year)
             THEN [result |-> addDonation(acc.result, cheer.name, cheerValue,
                                          cheer.createdAt, "bits", ""),
                   total |-> FAdd(acc.total, cheerValue)]
             ELSE acc
       IN  AddCheers(next, Tail(cheers), config, d, period)

RECURSIVE AddTips(_, _, _, _)
AddTips(acc, tips, d, period) ==
  IF tips = <<>> THEN acc
  ELSE LET tip  == Head(tips)
           next ==
             IF isInCurrentPeriod(tip.createdAt, period.summaryType, d,
                                  period.month, period.year)
             THEN [result |-> addDonation(acc.result, tip.name, tip.amount,
                                          tip.createdAt, "tip", ""),
                   total |-> FAdd(acc.total, tip.amount)]
             ELSE acc
       IN  AddTips(next, Tail(tips), d, period)

\* the amount left as the events gave it
NotAdjusted(amount, goalAmount, total) == amount

\* overall_total.amount += goal - total when goal > total
Adjusted(amount, goalAmount, total) ==
  IF FLess(total, goalAmount) THEN FAdd(amount, FSub(goalAmount, total))
  ELSE amount

\* new Date(b).getTime() - new Date(a).getTime() > 0
Later(b, a) ==
  LET tb == Get(getTime(b))
      ta == Get(getTime(a))
  IN  tb[1] > ta[1] \/ (tb[1] = ta[1] /\ tb[2] > ta[2])

\* Array.prototype.sort is stable: an element goes behind those that do not
\* have to follow it
RECURSIVE SortedDonations(_)
SortedDonations(donations) ==
  IF donations = <<>> THEN <<>>
  ELSE LET last   == donations[Len(donations)]
           sorted == SortedDonations(SubSeq(donations, 1, Len(donations) - 1))
           before == Cardinality({i \in 1..Len(sorted) :
                                    ~Later(last.timestamp, sorted[i].timestamp)})
       IN  SubSeq(sorted, 1, before) \o <<last>>
             \o SubSeq(sorted, before + 1, Len(sorted))

RECURSIVE SortedDonors(_)
SortedDonors(donors) ==
  IF donors = <<>> THEN <<>>
  ELSE LET last   == donors[Len(donors)]
           sorted == SortedDonors(SubSeq(donors, 1, Len(donors) - 1))
           before == Cardinality({i \in 1..Len(sorted) :
                                    ~FLess(sorted[i].total_amount,
                                           last.total_amount)})
       IN  SubSeq(sorted, 1, before) \o <<last>>
             \o SubSeq(sorted, before + 1, Len(sorted))

\* seResult as the JSON value that is compared, stored and sent
ResultJson(seResult) ==
  JObj([donations |->
          JArr([i \in 1..Len(seResult.donations) |->
                  DonorJson(seResult.donations[i])]),
        overall_total |->
          JObj([amount |-> JFloat(seResult.amount),
                donation_count |-> JNum(seResult.donation_count)])])

\* the goals of the session as amounts
cheerGoal(seData, config) ==
  IF seData.cheerGoal = 0 THEN FZero
  ELSE FMulInt(config.bitsValue, seData.cheerGoal)

subscriberGoal(seData, config) ==
  IF seData.subscriberGoal = 0 THEN FZero
  ELSE FMulInt(config.subscriptionValues.tier1, seData.subscriberGoal)

\* the donors sorted, each with its donations sorted
AllSorted(donors) ==
  SortedDonors([i \in 1..Len(donors) |->
                  [donors[i] EXCEPT !.individual_donations = SortedDonations(@)]])

\* the result once the three lists are through
AfterTips(seData, config, subs, cheers, tips) ==
  ResultJson([donations |-> AllSorted(tips.result.donations),
              amount |-> Adjusted(Adjusted(Adjusted(tips.result.amount,
                                                    cheerGoal(seData, config),
                                                    cheers.total),
                                           subscriberGoal(seData, config),
                                           subs.total),
                                  seData.tipGoal, tips.total),
              donation_count |-> tips.result.donation_count])

AfterCheers(seData, config, d, period, subs, cheers) ==
  AfterTips(seData, config, subs, cheers,
            AddTips([result |-> cheers.result, total |-> FZero],
                    seData.tips, d, period))

AfterSubscribers(seData, config, d, period, subs) ==
  AfterCheers(seData, config, d, period, subs,
              AddCheers([result |-> subs.result, total |-> FZero],
                        seData.cheers, config, d, period))

Period(summaryType, currentMonth, currentYear) ==
  [summaryType |-> summaryType, month |-> currentMonth, year |-> currentYear]

\* the result for the session data seData on day d
processStreamElementsData(seData, previousData, currentMonth, currentYear, config, d) ==
  AfterSubscribers(seData, config, d,
                   Period(config.summaryType, currentMonth, currentYear),
                   AddSubscribers([result |->
                                     StartingResult(previousData,
                                                    config.summaryType, d,
                                                    currentMonth, currentYear),
                                   total |-> FZero],
                                  seData.subscribers, seData.gifted, config, d,
                                  Period(config.summaryType, currentMonth,
                                         currentYear)))

(***************************************************************************)
(* GoalManager.pollExtraLife.  The call reads the stored data, then waits  *)
(* for the participant and the donations of the Extra Life API; what it    *)
(* does with the answers is ExtraLifePolled.                               *)
(***************************************************************************)
ParticipantIds == {"participant", "other"}

\* donations as the API lists them
OtherDonation ==
  JObj([amount |-> JNum(7), displayName |-> JStr(""),
        message |-> JStr("gg"), donationID |-> JStr("gift"),
        createdDateUTC |-> JStr("2024-01-01T00:00:05.000Z"),
        eventID |-> JStr("event")])

PastDonation ==
  JObj([amount |-> JNum(5), displayName |-> JStr("Bob"),
        message |-> JStr(""), donationID |-> JStr("past-donation"),
        createdDateUTC |-> JStr("2024-01-01T00:00:00.000Z"),
        eventID |-> JStr("past")])

\* the answers of the API: the fetch fails ("failed"), the participant
\* request is refused ("error"), or it is answered and the donations request
\* is refused or answered
ExtraLifeResponses ==
  {[status |-> status, sumDonations |-> 0, fundraisingGoal |-> 100,
    eventID |-> "event", donationsOk |-> FALSE, donations |-> <<>>] :
     status \in {"failed", "error"}}
  \cup
  {[status |-> "ok", sumDonations |-> answer[1], fundraisingGoal |-> 100,
    eventID |-> "event", donationsOk |-> ok, donations |-> answer[2]] :
     ok \in BOOLEAN,
     answer \in {<<0, <<>>>>, <<5, <<ExtraLifeDonation>>>>,
                 <<7, <<PastDonation, OtherDonation>>>>}}

\* x || fallback
OrElse(x, fallback) == IF Falsy(x) THEN fallback ELSE x

\* filters that keep every donation
AnyEvent(items, eventID) == items

AnyDonation(items, ids) == items

RECURSIVE FilterEvent(_, _)
FilterEvent(items, eventID) ==
  IF items = <<>> THEN <<>>
  ELSE IF StrictEquals(Prop(Head(items), "eventID"), eventID)
  THEN <<Head(items)>> \o FilterEvent(Tail(items), eventID)
  ELSE FilterEvent(Tail(items), eventID)

RECURSIVE FilterUnknown(_, _)
FilterUnknown(items, ids) ==
  IF items = <<>> THEN <<>>
  ELSE IF Prop(Head(items), "donationID") \notin ids
  THEN <<Head(items)>> \o FilterUnknown(Tail(items), ids)
  ELSE FilterUnknown(Tail(items), ids)

\* donations.map(...).filter(donation => donation.eventID === eventID)
validDonations(donations, eventID) ==
  FilterEvent([i \in 1..Len(donations) |->
                 JObj([amount |-> Prop(donations[i], "amount"),
                       displayName |-> OrElse(Prop(donations[i], "displayName"),
                                              JStr("Anonymous")),
                       message |-> OrElse(Prop(donations[i], "message"),
                                          JStr("")),
                       donationID |-> Prop(donations[i], "donationID"),
                       createdDateUTC |-> Prop(donations[i], "createdDateUTC"),
                       eventID |-> Prop(donations[i], "eventID")])],
              eventID)

\* the stable sort by createdDateUTC, latest first
RECURSIVE SortedByDate(_)
SortedByDate(items) ==
  IF items = <<>> THEN <<>>
  ELSE LET last   == items[Len(items)]
           sorted == SortedByDate(SubSeq(items, 1, Len(items) - 1))
           before == Cardinality({i \in 1..Len(sorted) :
                        ~Later(last.props.createdDateUTC.str,
                               sorted[i].props.createdDateUTC.str)})
       IN  SubSeq(sorted, 1, before) \o <<last>>
             \o SubSeq(sorted, before + 1, Len(sorted))

\* previousData && previousData.metadata.participantId !== participantId
hasParticipantChanged(previousData, participantId) ==
  /\ ~Falsy(previousData)
  /\ ~StrictEquals(previousData.props.metadata.props.participantId,
                   JStr(participantId))

\* a merge that keeps the stored donations after a change of participant
MergedKeepingPrevious(previousData, valid, eventID, changed) ==
  LET previousValid == FilterEvent(previousData.props.donations.items, eventID)
      existing == {Prop(previousValid[i], "donationID") :
                     i \in 1..Len(previousValid)}
      new      == FilterUnknown(valid, existing)
  IN  IF ~Falsy(previousData) /\ ~Falsy(Prop(previousData, "donations"))
      THEN [donations |-> previousValid \o new, newDonations |-> new]
      ELSE [donations |-> valid, newDonations |-> valid]

\* the donations of processedData and its newDonations (none when empty)
Merged(previousData, valid, eventID, changed) ==
  LET previousValid == FilterEvent(previousData.props.donations.items, eventID)
      existing == {Prop(previousValid[i], "donationID") :
                     i \in 1..Len(previousValid)}
      new      == FilterUnknown(valid, existing)
  IN  IF ~Falsy(previousData) /\ ~Falsy(Prop(previousData, "donations"))
         /\ ~changed
      THEN [donations |-> previousValid \o new, newDonations |-> new]
      ELSE [donations |-> valid, newDonations |-> valid]

\* processedData of pollExtraLife at ms t of day d
processedExtraLife(g, previousData, participantId, changed, response, d, t) ==
  LET eventID == JStr(response.eventID)
      merged  == Merged(previousData,
                        validDonations(response.donations, eventID),
                        eventID, changed)
      base    == [sumDonations |-> OrElse(JNum(response.sumDonations), JNum(0)),
                  fundraisingGoal |->
                    OrElse(JNum(response.fundraisingGoal),
                           JNum(Get(g.config).donationGoal)),
                  donations |-> JArr(SortedByDate(merged.donations)),
                  metadata |-> JObj([lastUpdated |-> JStr(toISOString(d, t)),
                                     participantId |-> JStr(participantId),
                                     eventID |-> eventID])]
  IN  IF merged.newDonations = <<>> THEN JObj(base)
      ELSE JObj([key \in DOMAIN base \cup {"newDonations"} |->
                   IF key = "newDonations" THEN JArr(merged.newDonations)
                   ELSE base[key]])

\* a comparison that takes an answer for nothing new only when nothing has
\* been raised
ExtraLifeUnchangedAtZero(previousData, participantId, response) ==
  /\ ~hasParticipantChanged(previousData, participantId)
  /\ ~Falsy(previousData)
  /\ response.sumDonations = 0
  /\ StrictEquals(Prop(previousData, "sumDonations"),
                  JNum(response.sumDonations))
  /\ StrictEquals(Prop(previousData, "fundraisingGoal"),
                  JNum(response.fundraisingGoal))
  /\ StrictEquals(previousData.props.metadata.props.eventID,
                  JStr(response.eventID))

\* the answer of the participant request shows nothing new
ExtraLifeUnchanged(previousData, participantId, response) ==
  /\ ~hasParticipantChanged(previousData, participantId)
  /\ ~Falsy(previousData)
  /\ StrictEquals(Prop(previousData, "sumDonations"),
                  JNum(response.sumDonations))
  /\ StrictEquals(Prop(previousData, "fundraisingGoal"),
                  JNum(response.fundraisingGoal))
  /\ StrictEquals(previousData.props.metadata.props.eventID,
                  JStr(response.eventID))

\* what pollExtraLife returns (null, the stored data read before the
\* requests, or the data it built), the document it leaves, the requests it
\* sent (the participant, then the donations) and whether it logged 'Extra
\* Life data unchanged, skipping update'
\* a poll that returns what it processed and stores nothing
ExtraLifeNotStored(g, previousData, participantId, response, d, t) ==
  [ret |-> "fresh",
   data |-> processedExtraLife(g, previousData, participantId,
                               hasParticipantChanged(previousData, participantId),
                               response, d, t),
   goal |-> g, requests |-> 2, skipped |-> FALSE]

ExtraLifePolled(g, previousData, participantId, response, d, t) ==
  LET changed       == hasParticipantChanged(previousData, participantId)
      unchanged     == ExtraLifeUnchanged(previousData, participantId, response)
      processedData == processedExtraLife(g, previousData, participantId,
                                          changed, response, d, t)
  IN  IF response.status = "failed"
      THEN [ret |-> "null", data |-> JNull, goal |-> g,
            requests |-> 1, skipped |-> FALSE]
      ELSE IF response.status = "error"
      THEN [ret |-> "previous", data |-> OrElse(previousData, JNull),
            goal |-> g, requests |-> 1, skipped |-> FALSE]
      ELSE IF unchanged
      THEN [ret |-> "previous", data |-> previousData, goal |-> g,
            requests |-> 1, skipped |-> TRUE]
      ELSE IF ~response.donationsOk
      THEN [ret |-> "previous", data |-> OrElse(previousData, JNull),
            goal |-> g, requests |-> 2, skipped |-> FALSE]
      ELSE [ret |-> "fresh", data |-> processedData,
            goal |-> Synced(g, "extraLife", processedData, t).goal,
            requests |-> 2, skipped |-> FALSE]

(***************************************************************************)
(* GoalManager.pollStreamElements.  The call reads the document, resets    *)
(* the goals of StreamElements when a period begins, reads the stored data *)
(* and waits for the session data; what it does with the answer is         *)
(* StreamElementsPolled.                                                   *)
(***************************************************************************)
\* what the call does before it waits for the session data: the document it
\* leaves, the PUTs sent, and whether it goes on to the request
StreamElementsBegun(g, d, t, ok) ==
  LET reset == resetGoalValuesIfNeeded(g, Get(g.config).streamElements.summaryType,
                                       d, t, ok)
  IN  IF ~g.exists
      THEN [goal |-> g, puts |-> 0, waits |-> FALSE,
            previous |-> JUndefined]
      ELSE [goal |-> reset.goal, puts |-> reset.puts, waits |-> ~reset.threw,
            previous |-> StoredData(reset.goal, "streamElements")]

\* finalData of pollStreamElements
finalData(processedData, d, t) ==
  JObj([current |-> processedData,
        metadata |-> JObj([month |-> JNum(getMonth(d)),
                           year |-> JNum(getFullYear(d)),
                           lastUpdated |-> JStr(toISOString(d, t))])])

\* pollStreamElements once the answer is processed
Compared(g, previousData, processedData, d, t) ==
  IF /\ ~Falsy(previousData)
     /\ ~Falsy(Prop(previousData, "current"))
     /\ isEqual(Prop(previousData, "current"), processedData)
  THEN [ret |-> "previous", data |-> previousData, goal |-> g]
  ELSE [ret |-> "fresh", data |-> finalData(processedData, d, t),
        goal |-> Synced(g, "streamElements",
                        finalData(processedData, d, t), t).goal]

\* what pollStreamElements returns and the document it leaves; config is
\* goalState.config.streamElements as read before the request
StreamElementsPolled(g, previousData, config, response, d, t) ==
  IF response.status = "failed"
  THEN [ret |-> "null", data |-> JNull, goal |-> g]
  ELSE IF response.status = "error"
  THEN [ret |-> "previous", data |-> OrElse(previousData, JNull), goal |-> g]
  ELSE Compared(g, previousData,
                processStreamElementsData(response.data, previousData,
                                          getMonth(d), getFullYear(d),
                                          config, d),
                d, t)

(***************************************************************************)
(* The blending of the local ledger into the data of StreamElements in     *)
(* pollFunction (goal.ts).                                                 *)
(***************************************************************************)
\* the names of the ledger as strings
NameStrings == [name \in Names |->
                  IF name = <<"A", "d", "a">> THEN "Ada"
                  ELSE IF name = <<"a", "d", "a">> THEN "ada" ELSE "Bob"]

\* a donation of the ledger as the events carry theirs; the ledger holds the
\* ms of day 0 for the ISO string of the instant
LedgerDonation(donation) ==
  [amount |-> donation.amount, timestamp |-> toISOString(0, donation.timestamp),
   donationType |-> donation.donationType, subTier |-> ""]

\* the test of donor.individual_donations.filter(...) at day d
filterKeeps(timestamp, summaryType, d) ==
  LET donationDate == Get(getTime(timestamp))
      weekStart    == <<d - getDay(d), 0>>
      weekEnd      == <<weekStart[1] + 7, 0>>
  IN  IF summaryType = "monthly"
      THEN /\ getMonth(donationDate[1]) = getMonth(d)
           /\ getFullYear(donationDate[1]) = getFullYear(d)
      ELSE ~Earlier(donationDate, weekStart) /\ Earlier(donationDate, weekEnd)

RECURSIVE Filtered(_, _, _)
Filtered(donations, summaryType, d) ==
  IF donations = <<>> THEN <<>>
  ELSE IF filterKeeps(Head(donations).timestamp, summaryType, d)
  THEN <<Head(donations)>> \o Filtered(Tail(donations), summaryType, d)
  ELSE Filtered(Tail(donations), summaryType, d)

\* localDonations.data.donations.map(...).filter(...): each donor with the
\* donations of the period, the donors left without donations dropped
RECURSIVE filteredDonations(_, _, _)
filteredDonations(donors, summaryType, d) ==
  IF donors = <<>> THEN <<>>
  ELSE LET donor == Head(donors)
           kept  == Filtered([i \in 1..Len(donor.individual_donations) |->
                                LedgerDonation(donor.individual_donations[i])],
                             summaryType, d)
           rest  == filteredDonations(Tail(donors), summaryType, d)
       IN  IF kept = <<>> THEN rest
           ELSE <<[name |-> NameStrings[donor.name],
                   individual_donations |-> kept,
                   total_amount |-> donor.total_amount,
                   total_donations |-> donor.total_donations]>> \o rest

\* donor.individual_donations.reduce((sum, d) => sum + d.amount, 0)
RECURSIVE PlainSum(_)
PlainSum(donations) ==
  IF donations = <<>> THEN FZero
  ELSE FAdd(PlainSum(SubSeq(donations, 1, Len(donations) - 1)),
            donations[Len(donations)].amount)

RECURSIVE filteredTotal(_)
filteredTotal(donors) ==
  IF donors = <<>> THEN [amount |-> FZero, donation_count |-> 0]
  ELSE LET acc   == filteredTotal(SubSeq(donors, 1, Len(donors) - 1))
           donor == donors[Len(donors)]
       IN  [amount |-> FAdd(acc.amount, PlainSum(donor.individual_donations)),
            donation_count |->
              acc.donation_count + Len(donor.individual_donations)]

\* a + n for a count a held as a number
PlusCount(a, n) == IF n = 0 THEN a ELSE JFloat(FAdd(a.num, FRatio(FALSE, n, 1)))

\* data after lines 479-481 for the ledger localDonations
Blended(data, localDonations, summaryType, d) ==
  LET filtered == filteredDonations(localDonations.data.donations,
                                    summaryType, d)
      total    == filteredTotal(filtered)
      current  == data.props.current
      overall  == current.props.overall_total
  IN  JObj([data.props EXCEPT !.current =
        JObj([current.props EXCEPT
          !.donations =
             JArr(current.props.donations.items
                    \o [i \in 1..Len(filtered) |-> DonorJson(filtered[i])]),
          !.overall_total =
             JObj([amount |-> JFloat(Rounded(FAdd(overall.props.amount.num,
                                                  total.amount))),
                   donation_count |-> PlusCount(overall.props.donation_count,
                                                total.donation_count)])])])

(***************************************************************************)
(* The goal-tracker effect (goal.ts): onTriggerEvent persists the goal,    *)
(* sends it to the overlay and starts polling; pollFunction runs at once   *)
(* and on every tick of the interval timer.  A call that waits for the     *)
(* store to be written, for an answer of an API or for a timeout is kept   *)
(* in tasks until it goes on.                                              *)
(***************************************************************************)
MaxTasks == 2
MaxTimers == 2
\* the donors the data of a StreamElements poll is driven to hold
MaxDonors == 3
\* the PUTs counted on one day
MaxPuts == 2

StreamElementsConfig(use, useLocalDonations, summaryType) ==
  [useStreamElements |-> use, useLocalDonations |-> useLocalDonations,
   summaryType |-> summaryType,
   bitsValue |-> FRatio(FALSE, 1, 100),
   subscriptionValues |-> [prime |-> FRatio(FALSE, 5, 1),
                           tier1 |-> FRatio(FALSE, 5, 1),
                           tier2 |-> FRatio(FALSE, 10, 1),
                           tier3 |-> FRatio(FALSE, 25, 1)]]

\* event.effect of the triggers
ExtraLifeEffects ==
  {[extraLife |-> [useExtraLife |-> TRUE, participantId |-> id],
    streamElements |-> StreamElementsConfig(id = "participant", FALSE,
                                            "monthly")] :
     id \in ParticipantIds}

StreamElementsEffects ==
  {[extraLife |-> [useExtraLife |-> FALSE, participantId |-> ""],
    streamElements |-> StreamElementsConfig(TRUE, useLocalDonations, summaryType)] :
     useLocalDonations \in BOOLEAN, summaryType \in SummaryTypes}

LocalEffect ==
  [extraLife |-> [useExtraLife |-> FALSE, participantId |-> ""],
   streamElements |-> StreamElementsConfig(FALSE, FALSE, "monthly")]

dataSourceMode(effect) ==
  IF effect.extraLife.useExtraLife THEN "extraLife"
  ELSE IF effect.streamElements.useStreamElements THEN "streamElements"
  ELSE "local"

\* the config with the effect's values as they came
ConfigAsGiven(effect) ==
  [donationGoal |-> 100, extraLife |-> effect.extraLife,
   streamElements |-> effect.streamElements]

\* config of the trigger: with Extra Life the effect's useStreamElements has
\* been set to false before
ConfigOf(effect) ==
  [donationGoal |-> 100,
   extraLife |-> effect.extraLife,
   streamElements |->
     IF effect.extraLife.useExtraLife
     THEN [effect.streamElements EXCEPT !.useStreamElements = FALSE]
     ELSE effect.streamElements]

baseGoalState(effect) ==
  [NoGoal EXCEPT !.uuid = Some("goal-1"), !.config = Some(ConfigOf(effect))]

\* a call that waits: the trigger for its write, a poll for its answer
Waiting(kind, mode, config, previous, persisted, source) ==
  [kind |-> kind, mode |-> mode, config |-> config, previous |-> previous,
   persisted |-> persisted, source |-> source]

\* the set of the elements of a sequence
Elements(seq) == {seq[i] : i \in 1..Len(seq)}

\* a message handed to webServer.sendToOverlay
Message(type, source, data) == [type |-> type, source |-> source, data |-> data]

\* the three returns before the switch of pollFunction
SkipsTick(mode, g) ==
  /\ g.exists
  /\ LET extraLife      == Get(g.config).extraLife.useExtraLife
         streamElements == Get(g.config).streamElements.useStreamElements
     IN  \/ extraLife /\ mode # "extraLife"
         \/ streamElements /\ mode # "streamElements"
         \/ (extraLife \/ streamElements) /\ mode = "local"

\* the source the stored configuration selects, "none" without a document
StoredSource(g) == IF g.exists THEN dataSourceMode(Get(g.config)) ELSE "none"

\* pollFunction up to the point where it waits: the document and the PUTs it
\* leaves and the call that waits, if one does
PollBegun(mode, config, g, d, t, ok) ==
  LET begun == StreamElementsBegun(g, d, t, ok)
  IN  IF SkipsTick(mode, g)
      THEN [ret |-> "skipped", goal |-> g, puts |-> 0, waiting |-> None]
      ELSE IF mode = "extraLife"
      THEN IF config.extraLife.participantId = ""
           THEN [ret |-> "null", goal |-> g, puts |-> 0, waiting |-> None]
           ELSE [ret |-> "waits", goal |-> g, puts |-> 0,
                 waiting |-> Some(Waiting("poll", mode, config,
                                          StoredData(g, "extraLife"),
                                          config.streamElements,
                                          StoredSource(g)))]
      ELSE IF mode = "streamElements"
      THEN IF begun.waits
           THEN [ret |-> "waits", goal |-> begun.goal, puts |-> begun.puts,
                 waiting |-> Some(Waiting("poll", mode, config, begun.previous,
                                          Get(g.config).streamElements,
                                          StoredSource(g)))]
           ELSE [ret |-> "null", goal |-> begun.goal, puts |-> begun.puts,
                 waiting |-> None]
      ELSE [ret |-> "waits", goal |-> g, puts |-> 0,
            waiting |-> Some(Waiting("poll", mode, config, JUndefined,
                                     config.streamElements,
                                     StoredSource(g)))]

\* a startPolling that leaves the running timer alone
clearNothing(running, handle) == running

\* clearInterval(activePollingInterval)
clearInterval(running, handle) ==
  IF IsSome(handle) THEN {timer \in running : timer.id # Get(handle)}
  ELSE running

\* the handle setInterval returns: one no running timer has
NewHandle(running) ==
  CHOOSE id \in 1..(MaxTimers + 1) : \A timer \in running : timer.id # id

\* onTriggerEvent up to the write of the goal: goalManager.updateGoalData
TriggerPersist(effect) ==
  /\ Cardinality(tasks) < MaxTasks
  /\ goal' = updateGoalData(goal, baseGoalState(effect), now)
  /\ tasks' = tasks \cup {Waiting("trigger", dataSourceMode(effect),
                                  ConfigOf(effect), JUndefined,
                                  ConfigOf(effect).streamElements,
                                  dataSourceMode(effect))}
  /\ lastOp' = Returned("trigger", "waits")
  /\ UNCHANGED <<now, day, timers, activePollingInterval, puts>>

\* the setting of the config whose value, in seconds, is the interval of the
\* timer
pollInterval(mode) ==
  IF mode = "extraLife" THEN "extraLife.dataPollInterval"
  ELSE IF mode = "streamElements" THEN "streamElements.pollInterval"
  ELSE "timing.dataPollInterval"

\* onTriggerEvent after the write: sendToOverlay and startPolling, which
\* clears the timer, runs pollFunction and sets the new timer
TriggerStart(task, ok) ==
  LET cleared == clearInterval(timers, activePollingInterval)
      begun   == PollBegun(task.mode, task.config, goal, day, now, ok)
      handle  == NewHandle(cleared)
  IN  /\ task \in tasks
      /\ task.kind = "trigger"
      /\ Cardinality(cleared) < MaxTimers
      /\ puts + begun.puts <= MaxPuts
      /\ goal' = begun.goal
      /\ puts' = puts + begun.puts
      /\ tasks' = (tasks \ {task}) \cup Elements(begun.waiting)
      /\ timers' = cleared \cup {[id |-> handle, mode |-> task.mode,
                                  config |-> task.config,
                                  interval |-> pollInterval(task.mode)]}
      /\ activePollingInterval' = Some(handle)
      \* name tells whether a running timer was cleared
      /\ lastOp' = [Returned("startPolling", begun.ret) EXCEPT
                      !.name = IF cleared # timers THEN <<"cleared">>
                               ELSE <<>>,
                      !.sent = <<Message("goal", task.mode, JNull)>>]
      /\ UNCHANGED <<now, day>>

\* a tick of an interval timer: pollFunction up to the point where it waits
TimerFires(timer, ok) ==
  LET begun == PollBegun(timer.mode, timer.config, goal, day, now, ok)
  IN  /\ timer \in timers
      /\ IsSome(begun.waiting) => Cardinality(tasks) < MaxTasks
      /\ puts + begun.puts <= MaxPuts
      /\ goal' = begun.goal
      /\ puts' = puts + begun.puts
      /\ tasks' = tasks \cup Elements(begun.waiting)
      /\ lastOp' = [Returned("tick", begun.ret) EXCEPT !.name = <<timer.mode>>]
      /\ UNCHANGED <<now, day, timers, activePollingInterval>>

\* the messages of a poll that returned data
Update(source, data) ==
  IF data = JNull THEN <<>> ELSE <<Message("update", source, data)>>

\* the Extra Life API answers a waiting poll
ExtraLifeAnswers(task, response) ==
  LET polled == ExtraLifePolled(goal, task.previous,
                                task.config.extraLife.participantId,
                                response, day, now)
  IN  /\ task \in tasks
      /\ task.kind = "poll" /\ task.mode = "extraLife"
      /\ goal' = polled.goal
      /\ tasks' = tasks \ {task}
      \* name holds what the call logged about the participant
      /\ lastOp' = [Returned("pollExtraLife", polled.ret) EXCEPT
                      !.name = IF hasParticipantChanged(task.previous,
                                    task.config.extraLife.participantId)
                               THEN <<"changed">>
                               ELSE IF polled.skipped THEN <<"unchanged">>
                               ELSE <<>>,
                      !.sent = Update("extraLife", polled.data)]
      /\ UNCHANGED <<now, day, timers, activePollingInterval, puts>>


\* session data as the StreamElements API answers it
SessionData(subscribers, gifted, cheers, tips) ==
  [subscribers |-> subscribers, gifted |-> gifted, cheers |-> cheers,
   tips |-> tips, cheerGoal |-> 0, subscriberGoal |-> 0, tipGoal |-> FZero]

NoEvents == SessionData(<<>>, None, <<>>, <<>>)

OneTip ==
  SessionData(<<>>, None, <<>>,
              <<[name |-> "Ada", amount |-> FRatio(FALSE, 5, 1),
                 createdAt |-> "2024-01-01T00:00:00.000Z"]>>)

StreamElementsResponses ==
  {[status |-> status, data |-> NoEvents] : status \in {"failed", "error"}}
  \cup {[status |-> "ok", data |-> data] : data \in {NoEvents, OneTip}}

\* data as pollFunction sends it: with the ledger blended in when the
\* trigger asked for it
Outgoing(task, polled, d) ==
  IF /\ polled.data # JNull
     /\ task.config.streamElements.useLocalDonations
     /\ IsSome(polled.goal.localDonations)
  THEN Blended(polled.data, Get(polled.goal.localDonations),
               task.config.streamElements.summaryType, d)
  ELSE polled.data

\* the blending is done in the object pollStreamElements returned: when
\* that is the object the document holds, the document holds the blended
\* data
Answered(task, polled, data) ==
  /\ data # JNull => Len(data.props.current.props.donations.items) <= MaxDonors
  /\ goal' = IF StoredData(polled.goal, "streamElements") = polled.data
             THEN [polled.goal EXCEPT !.streamElements =
                     Some([Get(@) EXCEPT !.data = data])]
             ELSE polled.goal
  /\ tasks' = tasks \ {task}
  /\ lastOp' = [Returned("pollStreamElements", polled.ret) EXCEPT
                  !.sent = Update("streamElements", data)]
  /\ UNCHANGED <<now, day, timers, activePollingInterval, puts>>

Blending(task, polled) == Answered(task, polled, Outgoing(task, polled, day))

\* the StreamElements API answers a waiting poll
StreamElementsAnswers(task, response) ==
  /\ task \in tasks
  /\ task.kind = "poll" /\ task.mode = "streamElements"
  /\ Blending(task, StreamElementsPolled(goal, task.previous, task.persisted,
                                         response, day, now))

\* filteredData of the local case of pollFunction
filteredData(localData, d, t) ==
  LET filtered == filteredDonations(localData.data.donations, "monthly", d)
      total    == filteredTotal(filtered)
  IN  JObj([data |->
        JObj([donations |->
                JArr([i \in 1..Len(filtered) |-> DonorJson(filtered[i])]),
              overall_total |->
                JObj([amount |-> JFloat(Rounded(total.amount)),
                      donation_count |-> JNum(total.donation_count)]),
              metadata |-> JObj([lastUpdated |-> JStr(toISOString(d, t))])])])

\* the timeout of the local case runs out
LocalTimeout(task) ==
  /\ task \in tasks
  /\ task.kind = "poll" /\ task.mode = "local"
  /\ tasks' = tasks \ {task}
  /\ lastOp' = [Returned("pollLocal", "ok") EXCEPT
                  !.sent = IF IsSome(goal.localDonations)
                           THEN <<Message("update", "localDonations",
                                          filteredData(Get(goal.localDonations),
                                                       day, now))>>
                           ELSE <<>>]
  /\ UNCHANGED <<now, goal, day, timers, activePollingInterval, puts>>

\* GoalManager.resetStreamElementsData
resetStreamElementsData ==
  LET fresh ==
        [lastUpdated |-> now, lastGoalReset |-> None,
         data |-> JObj([current |->
                          JObj([donations |-> JArr(<<>>),
                                overall_total |->
                                  JObj([amount |-> JNum(0),
                                        donation_count |-> JNum(0)])]),
                        metadata |->
                          JObj([month |-> JNum(getMonth(day)),
                                year |-> JNum(getFullYear(day)),
                                lastUpdated |-> JStr(toISOString(day, now))])])]
  IN  /\ goal' = IF goal.exists
                 THEN updateGoalData(goal,
                                     [goal EXCEPT !.streamElements = Some(fresh)],
                                     now)
                 ELSE goal
      /\ lastOp' = Returned("resetStreamElements", "ok")
      /\ UNCHANGED <<now, pollVars>>

\* midnight passes: the clock is at a later day
NextDay ==
  /\ \E d \in Days : d > day /\ day' = d
  /\ puts' = 0
  /\ UNCHANGED <<now, goal, lastOp, timers, activePollingInterval, tasks>>

\* Extra Life and local goals
PollNext ==
  \/ \E effect \in ExtraLifeEffects \cup {LocalEffect} : TriggerPersist(effect)
  \/ \E task \in tasks : TriggerStart(task, TRUE)
  \/ \E timer \in timers : TimerFires(timer, TRUE)
  \/ \E task \in tasks, response \in ExtraLifeResponses :
       ExtraLifeAnswers(task, response)
  \/ \E task \in tasks : LocalTimeout(task)

PollSpec == Init /\ [][PollNext]_vars

\* StreamElements goals with the ledger: the effects that blend it, a
\* trigger only when no call is waiting
BlendEffects == {effect \in StreamElementsEffects :
                   effect.streamElements.useLocalDonations}
BlendNext ==
  \/ \E effect \in BlendEffects : tasks = {} /\ TriggerPersist(effect)
  \/ \E task \in tasks : TriggerStart(task, TRUE)
  \/ \E timer \in timers : TimerFires(timer, TRUE)
  \/ \E task \in tasks, response \in StreamElementsResponses :
       StreamElementsAnswers(task, response)
  \/ updateLocalDonation(<<"A", "d", "a">>, 100)

BlendSpec == Init /\ [][BlendNext]_vars

\* StreamElements goals over the days: the effects without the ledger, the
\* answers without events, a trigger only when no call is waiting
ResetEffects == {effect \in StreamElementsEffects :
                   ~effect.streamElements.useLocalDonations}
ResetResponses == {response \in StreamElementsResponses :
                     response.data = NoEvents /\ response.status # "error"}
ResetNext ==
  \/ \E effect \in ResetEffects : tasks = {} /\ TriggerPersist(effect)
  \/ \E task \in tasks, ok \in BOOLEAN : TriggerStart(task, ok)
  \/ \E timer \in timers, ok \in BOOLEAN : TimerFires(timer, ok)
  \/ \E task \in tasks, response \in ResetResponses :
       StreamElementsAnswers(task, response)
  \/ resetStreamElementsData
  \/ NextDay

ResetSpec == Init /\ [][ResetNext]_vars

(***************************************************************************)
(* processStreamElementsData on its own: a stored StreamElements goal is   *)
(* polled with one answer of the API, again and again.                     *)
(***************************************************************************)
MaxCheers == 2

Since2024 == "2024-01-01T00:00:00.000Z"

CheerEvents ==
  {[name |-> "Ada", amount |-> 35, createdAt |-> Since2024],
   [name |-> "Ada", amount |-> 500, createdAt |-> Since2024],
   [name |-> "Ada", amount |-> 35, createdAt |-> LastYear]}

RECURSIVE Lists(_, _)
Lists(events, n) ==
  IF n = 0 THEN {<<>>}
  ELSE Lists(events, n - 1)
         \cup {Append(list, e) : list \in Lists(events, n - 1), e \in events}

SubscriberEvents ==
  {[name |-> "Ada", tier |-> "1000", createdAt |-> Since2024],
   [name |-> "Bob", tier |-> "prime", createdAt |-> Since2024]}

TipEvents ==
  {[name |-> "Ada", amount |-> FRatio(FALSE, 35, 100), createdAt |-> Since2024]}

Answers ==
  {[SessionData(subscribers, gifted, cheers, tips) EXCEPT !.cheerGoal = goals] :
     subscribers \in Lists(SubscriberEvents, 1),
     gifted \in {None, Some([name |-> "Ada", tier |-> "1000", sender |-> "Bob"])},
     cheers \in Lists(CheerEvents, MaxCheers),
     tips \in Lists(TipEvents, 1),
     goals \in {0, 100}}

\* a StreamElements goal is started and the API's answer is fixed
Draw(summaryType, answer) ==
  LET effect == [LocalEffect EXCEPT !.streamElements =
                   StreamElementsConfig(TRUE, FALSE, summaryType)]
  IN  /\ tasks = {}
      /\ goal' = updateGoalData(goal, baseGoalState(effect), now)
      /\ tasks' = {[kind |-> "answer", data |-> answer]}
      /\ lastOp' = Returned("trigger", "ok")
      /\ UNCHANGED <<now, day, timers, activePollingInterval, puts>>

\* pollStreamElements with the answer
Processed(polled) ==
  /\ goal' = polled.goal
  /\ lastOp' = [Returned("pollStreamElements", polled.ret) EXCEPT
                  !.sent = Update("streamElements", polled.data)]
  /\ UNCHANGED <<now, pollVars>>

Process(task) ==
  /\ task \in tasks
  /\ Processed(StreamElementsPolled(goal, StoredData(goal, "streamElements"),
                                    Get(goal.config).streamElements,
                                    [status |-> "ok", data |-> task.data],
                                    day, now))

ProcessNext ==
  \/ \E summaryType \in SummaryTypes, answer \in Answers :
       Draw(summaryType, answer)
  \/ \E task \in tasks : Process(task)

ProcessSpec == Init /\ [][ProcessNext]_vars

(***************************************************************************)
(* The period tests on their own: on every day of the clock a timestamp is *)
(* put to the test of processStreamElementsData and to the filter of       *)
(* pollFunction.                                                           *)
(***************************************************************************)
PeriodStamps ==
  {"2023-12-30T23:59:59.000Z", Sunday2023, LastYear,
   "2024-01-01T00:00:00.000Z", "2024-01-06T23:59:59.000Z",
   "2024-01-07T00:00:00.000Z", "2024-01-14T00:00:00.000Z",
   "2024-01-31T23:59:59.000Z", "2024-02-01T00:00:00.000Z"}

Classify(timestamp, summaryType) ==
  /\ lastOp' = [Returned("classify",
                         IF isInCurrentPeriod(timestamp, summaryType, day,
                                              getMonth(day), getFullYear(day))
                         THEN "in" ELSE "out") EXCEPT
                  !.name = <<timestamp, summaryType>>,
                  !.sent = <<IF filterKeeps(timestamp, summaryType, day)
                             THEN "in" ELSE "out">>]
  /\ UNCHANGED <<now, goal, pollVars>>

PeriodNext ==
  \/ \E timestamp \in PeriodStamps, summaryType \in SummaryTypes :
       Classify(timestamp, summaryType)
  \/ NextDay

PeriodSpec == Init /\ [][PeriodNext]_vars

(***************************************************************************)
(* Reading the stored ledger                                               *)
(***************************************************************************)
Ledger(g) == IF IsSome(g.localDonations)
             THEN Get(g.localDonations).data
             ELSE emptyLocalData(0).data

Donors(g) == Ledger(g).donations

\* an amount as a whole number of cents, and the amount of so many cents
Cents(x) == IF x.neg THEN -toFixed2(x).cents ELSE toFixed2(x).cents

DecimalAmount(c) == FRatio(c < 0, Abs(c), 100)

RECURSIVE SumCents(_)
SumCents(donations) ==
  IF donations = <<>> THEN 0
  ELSE Cents(donations[1].amount) + SumCents(Tail(donations))

RECURSIVE SumTotalCents(_)
SumTotalCents(donors) ==
  IF donors = <<>> THEN 0
  ELSE Cents(donors[1].total_amount) + SumTotalCents(Tail(donors))

RECURSIVE SumTotalDonations(_)
SumTotalDonations(donors) ==
  IF donors = <<>> THEN 0
  ELSE donors[1].total_donations + SumTotalDonations(Tail(donors))

(***************************************************************************)
(* C1.  Every stored donor's total_amount is the sum of the amounts of its *)
(* individual donations, its total_donations is their number, and it has   *)
(* at least one donation.                                                  *)
(***************************************************************************)
DonorTotalsMatch ==
  \A i \in 1..Len(Donors(goal)) :
    LET donor == Donors(goal)[i]
    IN  /\ donor.total_amount
             = DecimalAmount(SumCents(donor.individual_donations))
        /\ donor.total_donations = Len(donor.individual_donations)
        /\ Len(donor.individual_donations) >= 1

(***************************************************************************)
(* C2.  The stored overall_total.amount is the sum of the donors'          *)
(* total_amount, overall_total.donation_count is the sum of their          *)
(* total_donations, and neither is negative.                               *)
(***************************************************************************)
OverallTotalMatches ==
  LET overall == Ledger(goal).overall_total
  IN  /\ overall.amount = DecimalAmount(SumTotalCents(Donors(goal)))
      /\ overall.donation_count = SumTotalDonations(Donors(goal))
      /\ ~overall.amount.neg
      /\ overall.donation_count >= 0

SameRequest(name, m) ==
  /\ lastOp.op = "add"
  /\ lastOp.ret = "ok"
  /\ toLowerCase(lastOp.name) = toLowerCase(name)
  /\ RoundedAmount[lastOp.amount] = RoundedAmount[m]

\* the donations of the donor called name, if stored
DonationsOf(g, name) ==
  LET idx == FindDonor(Donors(g), name)
  IN  IF idx = 0 THEN <<>> ELSE Donors(g)[idx].individual_donations

StoredSince(g, name, amount, since) ==
  Cardinality({j \in 1..Len(DonationsOf(g, name)) :
                 /\ DonationsOf(g, name)[j].amount = amount
                 /\ DonationsOf(g, name)[j].timestamp >= since})

(***************************************************************************)
(* C3.  When updateLocalDonation has stored a donation and the next call   *)
(* is updateLocalDonation with the same donor name (compared without case) *)
(* and the same rounded amount, less than 5 seconds later, that call       *)
(* returns null and writes nothing, and the donor holds exactly one        *)
(* donation of that amount made since the first call.                      *)
(***************************************************************************)
DuplicateSuppressed ==
  [][\A name \in Names, m \in AmountInputs :
       ( /\ SameRequest(name, m)
         /\ now - lastOp.at < DupWindow
         /\ updateLocalDonation(name, m) )
       => /\ lastOp'.ret = "null"
          /\ goal' = goal
          /\ StoredSince(goal', name, RoundedAmount[m], lastOp.at) = 1]_vars

DuplicateSuppressedSeen ==
  /\ lastOp.op = "add"
  /\ lastOp.ret = "null"
  /\ now > 0

(***************************************************************************)
(* C4.  When updateLocalDonation has stored a donation and the next call   *)
(* is updateLocalDonation with the same donor and amount 5 seconds or more *)
(* later, the second donation is recorded after the first; when the first  *)
(* was the only donation of the ledger, the ledger then holds one donor    *)
(* with two donations and overall_total is twice the amount, count 2.      *)
(***************************************************************************)
BothRecorded ==
  [][\A name \in Names, m \in AmountInputs :
       ( /\ SameRequest(name, m)
         /\ now - lastOp.at >= DupWindow
         /\ updateLocalDonation(name, m) )
       => /\ lastOp'.ret = "ok"
          /\ DonationsOf(goal', name)
               = Append(DonationsOf(goal, name),
                        [amount |-> RoundedAmount[m], timestamp |-> now,
                         donationType |-> "local"])
          /\ Ledger(goal').overall_total.donation_count
               = Ledger(goal).overall_total.donation_count + 1
          /\ StoredDonations(goal) = 1
               => /\ Len(Donors(goal')) = 1
                  /\ Len(DonationsOf(goal', name)) = 2
                  /\ Ledger(goal').overall_total
                       = [amount |-> DecimalAmount(
                                       2 * Cents(RoundedAmount[m])),
                          donation_count |-> 2]]_vars

BothRecordedSeen ==
  /\ lastOp.op = "add"
  /\ lastOp.ret = "ok"
  /\ Len(Donors(goal)) = 1
  /\ LET ds == Donors(goal)[1].individual_donations
     IN  /\ Len(ds) = 2
         /\ ds[1].amount = ds[2].amount
         /\ ds[2].timestamp - ds[1].timestamp >= DupWindow

(***************************************************************************)
(* C5.  updateLocalDonation with an amount <= 0 throws and leaves the      *)
(* whole persisted document unchanged.                                     *)
(***************************************************************************)
NonPositiveRejected ==
  [][\A name \in Names, m \in AmountInputs :
       (m <= 0 /\ updateLocalDonation(name, m))
       => (lastOp'.ret = "throw" /\ goal' = goal)]_vars

NonPositiveRejectedSeen ==
  /\ lastOp.op = "add"
  /\ lastOp.ret = "throw"
  /\ Donors(goal) # <<>>

TimestampStored(g, timestamp) ==
  \E i \in 1..Len(Donors(g)) :
    \E j \in 1..Len(Donors(g)[i].individual_donations) :
      Donors(g)[i].individual_donations[j].timestamp = timestamp

RemovedOne(old, new, i, j) ==
  LET donor   == old.donations[i]
      removed == donor.individual_donations[j]
      rest    == Splice1(donor.individual_donations, j)
  IN  /\ IF rest = <<>>
         THEN new.donations = Splice1(old.donations, i)
         ELSE /\ Len(new.donations) = Len(old.donations)
              /\ \A k \in 1..Len(old.donations) :
                   k # i => new.donations[k] = old.donations[k]
              /\ new.donations[i].name = donor.name
              /\ new.donations[i].individual_donations = rest
              /\ Cents(new.donations[i].total_amount)
                   = Cents(donor.total_amount) - Cents(removed.amount)
              /\ new.donations[i].total_donations = donor.total_donations - 1
      /\ Cents(new.overall_total.amount)
           = Cents(old.overall_total.amount) - Cents(removed.amount)
      /\ new.overall_total.donation_count
           = old.overall_total.donation_count - 1

(***************************************************************************)
(* C6.  removeLocalDonation with the timestamp of a stored donation        *)
(* removes exactly one donation with that timestamp, lowers its donor's    *)
(* total_amount and overall_total.amount by the donation's amount (to the  *)
(* cent) and both counts by one, removes the donor when that was its only  *)
(* donation, and leaves every other donor as it was.                       *)
(***************************************************************************)
RemoveRemovesOne ==
  [][\A timestamp \in Instants :
       (TimestampStored(goal, timestamp) /\ removeLocalDonation(timestamp))
       => /\ lastOp'.ret = "ok"
          /\ \E i \in 1..Len(Donors(goal)) :
               \E j \in 1..Len(Donors(goal)[i].individual_donations) :
                 /\ Donors(goal)[i].individual_donations[j].timestamp
                      = timestamp
                 /\ RemovedOne(Ledger(goal), Ledger(goal'), i, j)]_vars

RemoveRemovesOneSeen ==
  /\ lastOp.op = "remove"
  /\ lastOp.ret = "ok"
  /\ StoredDonations(goal) = MaxDonations - 1

DonorStored(g, name) ==
  \E i \in 1..Len(Donors(g)) : SameDonor(Donors(g)[i], name)

(***************************************************************************)
(* C7.  removeLocalDonation with a timestamp no stored donation has, and   *)
(* resetUserDonations with a name no stored donor has, throw and leave the *)
(* persisted document unchanged.                                           *)
(***************************************************************************)
NotFoundRejected ==
  [][/\ \A timestamp \in Instants :
          (~TimestampStored(goal, timestamp) /\ removeLocalDonation(timestamp))
          => (lastOp'.ret = "throw" /\ goal' = goal)
     /\ \A userName \in Names :
          (~DonorStored(goal, userName) /\ resetUserDonations(userName))
          => (lastOp'.ret = "throw" /\ goal' = goal)]_vars

NotFoundRejectedSeen ==
  /\ lastOp.op \in {"remove", "resetUser"}
  /\ lastOp.ret = "throw"
  /\ Donors(goal) # <<>>

(***************************************************************************)
(* C8.  resetUserDonations with the name of a stored donor removes exactly *)
(* that donor, lowers overall_total.amount by the donor's total_amount (to *)
(* the cent) and overall_total.donation_count by its total_donations, and  *)
(* leaves the other donors as they were.                                   *)
(***************************************************************************)
ResetUserRemovesDonor ==
  [][\A userName \in Names :
       (DonorStored(goal, userName) /\ resetUserDonations(userName))
       => /\ lastOp'.ret = "ok"
          /\ \E i \in 1..Len(Donors(goal)) :
               LET donor == Donors(goal)[i]
               IN  /\ SameDonor(donor, userName)
                   /\ Donors(goal') = Splice1(Donors(goal), i)
                   /\ ~DonorStored(goal', userName)
                   /\ Cents(Ledger(goal').overall_total.amount)
                        = Cents(Ledger(goal).overall_total.amount)
                            - Cents(donor.total_amount)
                   /\ Ledger(goal').overall_total.donation_count
                        = Ledger(goal).overall_total.donation_count
                            - donor.total_donations]_vars

ResetUserRemovesDonorSeen ==
  /\ lastOp.op = "resetUser"
  /\ lastOp.ret = "ok"
  /\ Len(Donors(goal)) = 1

(***************************************************************************)
(* C9.  resetLocalData leaves an empty donor list and totals of amount 0   *)
(* and count 0 whatever the ledger held, and a second resetLocalData       *)
(* leaves the same donor list and totals as the first.                     *)
(***************************************************************************)
ResetLocalEmpties ==
  [][resetLocalData
       => /\ lastOp'.ret = "ok"
          /\ Donors(goal') = <<>>
          /\ Ledger(goal').overall_total
               = [amount |-> FZero, donation_count |-> 0]
          /\ lastOp.op = "resetLocal"
               => /\ Donors(goal') = Donors(goal)
                  /\ Ledger(goal').overall_total
                       = Ledger(goal).overall_total]_vars

ResetLocalEmptiesSeen ==
  /\ lastOp.op = "resetLocal"
  /\ Donors(goal) = <<>>
  /\ Ledger(goal).overall_total.donation_count = 0
  /\ now > 0

RECURSIVE DeepEqual(_, _)
DeepEqual(a, b) ==
  IF a.t # b.t THEN FALSE
  ELSE IF a.t = "string"
  THEN \/ a.str = b.str
       \/ /\ a.str \in DOMAIN DateStrings
          /\ b.str \in DOMAIN DateStrings
          /\ DateStrings[a.str] = DateStrings[b.str]
  ELSE IF a.t = "array"
  THEN /\ Len(a.items) = Len(b.items)
       /\ \A i \in 1..Len(a.items) : DeepEqual(a.items[i], b.items[i])
  ELSE IF a.t = "object"
  THEN /\ DOMAIN a.props = DOMAIN b.props
       /\ \A k \in DOMAIN a.props : DeepEqual(a.props[k], b.props[k])
  ELSE a = b

\* the pairs of payloads of a source that are deep-equal
DeepEqualPayloads ==
  [source \in Sources |->
     {pair \in Payloads[source] \X Payloads[source] :
        DeepEqual(pair[1], pair[2])}]

(***************************************************************************)
(* C10.  syncExternalData with newData deep-equal to the data stored for   *)
(* the source (equal in structure, date strings compared by the instant    *)
(* they name) returns false and leaves the whole persisted document,       *)
(* updatedAt and the source's lastUpdated included, unchanged.             *)
(***************************************************************************)
SyncUnchangedSkipped ==
  [][\A source \in Sources :
       \A newData \in Payloads[source] :
         ( /\ IsSome(goal[source])
           /\ <<Get(goal[source]).data, newData>> \in DeepEqualPayloads[source]
           /\ syncExternalData(source, newData) )
         => (lastOp'.ret = "false" /\ goal' = goal)]_vars

SyncUnchangedSkippedSeen ==
  /\ lastOp.op = "sync"
  /\ lastOp.ret = "false"
  /\ \E source \in Sources :
       /\ lastOp.name = <<source>>
       /\ IsSome(goal[source])
       /\ IsSome(goal.updatedAt)
       /\ now > Get(goal.updatedAt)

(***************************************************************************)
(* C11.  A poll of Extra Life whose answer shows the stored data unchanged *)
(* hands no 'update' message to the overlay.                               *)
(***************************************************************************)
UnchangedPollSilent ==
  [][\A task \in tasks, response \in ExtraLifeResponses :
       /\ response.status = "ok"
       /\ task.previous = StoredData(goal, "extraLife")
       /\ ExtraLifeUnchanged(task.previous,
                             task.config.extraLife.participantId, response)
       /\ ExtraLifeAnswers(task, response)
       => /\ goal' = goal
          /\ lastOp'.sent = <<>>]_vars

StoredDonors(g) ==
  IF Falsy(StoredData(g, "streamElements")) THEN <<>>
  ELSE StoredData(g, "streamElements").props.current.props.donations.items

(***************************************************************************)
(* C12.  processStreamElementsData adds an event only when its donor has   *)
(* no donation of the same rounded amount and the same timestamp: no       *)
(* stored donor holds two donations equal in amount and timestamp.         *)
(***************************************************************************)
NoRepeatedDonation ==
  \A i \in 1..Len(StoredDonors(goal)) :
    LET donations == StoredDonors(goal)[i].props.individual_donations.items
    IN  \A j, k \in 1..Len(donations) :
          /\ donations[j].props.amount = donations[k].props.amount
          /\ donations[j].props.timestamp = donations[k].props.timestamp
          => j = k

\* a second poll with the same answer leaves the stored record as it is
RepollUnchanged ==
  [][\A task \in tasks :
       Process(task) /\ ~Falsy(StoredData(goal, "streamElements"))
       => goal' = goal]_vars

(***************************************************************************)
(* C13.  When pollExtraLife runs for a participant other than the one of   *)
(* the stored metadata it read and the API answers both requests, the      *)
(* stored donations afterwards are the API's donations of the event for    *)
(* the new participant, none of the old ones, and sumDonations is the sum  *)
(* the API gave.                                                           *)
(***************************************************************************)
ParticipantChangeReplaces ==
  [][\A task \in tasks, response \in ExtraLifeResponses :
       /\ response.status = "ok" /\ response.donationsOk
       /\ task.previous.t = "object"
       /\ task.previous.props.metadata.props.participantId
            # JStr(task.config.extraLife.participantId)
       /\ ExtraLifeAnswers(task, response)
       => LET stored == StoredData(goal', "extraLife")
          IN  /\ stored.props.donations =
                   JArr(SortedByDate(validDonations(response.donations,
                                                    JStr("event"))))
              /\ stored.props.sumDonations = JNum(response.sumDonations)
              /\ stored.props.metadata.props.participantId =
                   JStr(task.config.extraLife.participantId)]_vars

\* the other participant's data stored in place of data that had donations
ParticipantChangeReplacesSeen ==
  /\ lastOp.op = "pollExtraLife" /\ lastOp.ret = "fresh"
  /\ lastOp.name = <<"changed">>
  /\ StoredData(goal, "extraLife").props.metadata.props.participantId
       = JStr("other")
  /\ Len(StoredData(goal, "extraLife").props.donations.items) = 1
  /\ StoredData(goal, "extraLife").props.donations.items[1].props.donationID
       = JStr("gift")

(***************************************************************************)
(* C14.  When the Extra Life API refuses a request or the request fails,   *)
(* the poll returns the data stored for the source (here: and sends it),   *)
(* the document is left as it is and the timer keeps running.              *)
(***************************************************************************)
FailedPollReturnsStored ==
  [][\A task \in tasks, response \in ExtraLifeResponses :
       /\ response.status \in {"failed", "error"}
       /\ task.previous = StoredData(goal, "extraLife")
       /\ task.previous.t = "object"
       /\ ExtraLifeAnswers(task, response)
       => /\ goal' = goal
          /\ timers' = timers
          /\ lastOp'.ret = "previous"
          /\ lastOp'.sent = Update("extraLife", StoredData(goal, "extraLife"))]_vars

(***************************************************************************)
(* C17.  At most one polling interval timer is set at any time: every      *)
(* startPolling cancels the timer set before, and the one timer left is    *)
(* the one of the latest startPolling, held in activePollingInterval.      *)
(***************************************************************************)
OnePollingTimer ==
  [][/\ Cardinality(timers') <= 1
     /\ \A timer \in timers' : activePollingInterval' = Some(timer.id)
     /\ \A task \in tasks :
          task.kind = "trigger" /\ TriggerStart(task, TRUE)
          => timers' = {[id |-> Get(activePollingInterval'),
                         mode |-> task.mode, config |-> task.config,
                         interval |-> pollInterval(task.mode)]}]_vars

\* a startPolling that found a timer running and left its own
OnePollingTimerSeen ==
  /\ lastOp.op = "startPolling"
  /\ lastOp.name = <<"cleared">>
  /\ Cardinality(timers) = 1

(***************************************************************************)
(* C18.  A tick whose mode is not the source the stored configuration      *)
(* selects is skipped: it starts no poll and writes nothing.               *)
(***************************************************************************)
StaleTickSkipped ==
  [][\A timer \in timers :
       /\ goal.exists
       /\ timer.mode # dataSourceMode(Get(goal.config))
       /\ TimerFires(timer, TRUE)
       => /\ lastOp'.ret = "skipped"
          /\ tasks' = tasks
          /\ goal' = goal]_vars

(***************************************************************************)
(* C19.  When the stored configuration has come to select another source   *)
(* while the request of a tick was in flight, the answer is discarded:     *)
(* nothing is written and nothing is sent to the overlay.                  *)
(***************************************************************************)
StaleAnswerDiscarded ==
  [][\A task \in tasks, response \in ExtraLifeResponses :
       /\ goal.exists
       /\ task.kind = "poll"
       /\ task.source = task.mode
       /\ StoredSource(goal) # task.mode
       /\ ExtraLifeAnswers(task, response)
       => /\ goal' = goal
          /\ lastOp'.sent = <<>>]_vars

(***************************************************************************)
(* C15.  However often StreamElements is polled and its data reset, the    *)
(* platform takes at most one goal reset on a day: puts counts the PUTs    *)
(* accepted since midnight.                                                *)
(***************************************************************************)
OneResetPerBoundary == puts <= 1

\* the week, starting on Sunday, and the month of a day
WeekOf(d) == (d + 1) \div 7
PeriodOf(summaryType, d) ==
  IF summaryType = "weekly" THEN WeekOf(d) ELSE getMonth(d)

\* the reset recorded is of a period before the one of day d
StaleReset(g, d) ==
  /\ HasLastGoalReset(g)
  /\ IsSome(Get(g.streamElements).lastGoalReset)
  /\ LET summaryType == Get(g.config).streamElements.summaryType
     IN  PeriodOf(summaryType, Get(Get(g.streamElements).lastGoalReset).day)
           < PeriodOf(summaryType, d)

(***************************************************************************)
(* C16.  A StreamElements poll that finds the recorded reset to be of an   *)
(* earlier week or month, so that no poll of this period has recorded one, *)
(* has the reset accepted and records it in this period.                   *)
(***************************************************************************)
ResetOnNewPeriod ==
  [][\A timer \in timers :
       /\ goal.exists
       /\ timer.mode = "streamElements"
       /\ ~SkipsTick(timer.mode, goal)
       /\ StaleReset(goal, day)
       /\ TimerFires(timer, TRUE)
       => /\ puts' = puts + 1
          /\ ~StaleReset(goal', day)]_vars

(***************************************************************************)
(* C20.  When the answer of a StreamElements poll is blended with the      *)
(* ledger, the streamElements record of the document is the one            *)
(* pollStreamElements left: the blending changes the outgoing data only.   *)
(***************************************************************************)
BlendingLeavesRecord ==
  [][\A task \in tasks, response \in StreamElementsResponses :
       /\ task.kind = "poll"
       /\ task.mode = "streamElements"
       /\ task.config.streamElements.useLocalDonations
       /\ StreamElementsAnswers(task, response)
       => goal'.streamElements =
            StreamElementsPolled(goal, task.previous, task.persisted,
                                 response, day, now).goal.streamElements]_vars

\* the donations of the period the ledger holds, summed
LedgerTotal(g, summaryType, d) ==
  IF IsSome(g.localDonations)
  THEN filteredTotal(filteredDonations(Get(g.localDonations).data.donations,
                                       summaryType, d)).amount
  ELSE FZero

\* no donor of data holds a donation that came from an event
OnlyLocal(data) ==
  \/ Falsy(data)
  \/ \A i \in 1..Len(data.props.current.props.donations.items) :
       LET donor == data.props.current.props.donations.items[i]
       IN  \A j \in 1..Len(donor.props.individual_donations.items) :
             donor.props.individual_donations.items[j].props.donationType
               = JStr("local")

(***************************************************************************)
(* C21.  With an event feed that has stayed empty and the ledger blended   *)
(* in, the total of every payload sent is the total of the ledger's        *)
(* donations of the period: each local donation is counted once.           *)
(***************************************************************************)
LocalCountedOnce ==
  [][\A task \in tasks, response \in StreamElementsResponses :
       /\ task.kind = "poll"
       /\ task.mode = "streamElements"
       /\ task.config.streamElements.useLocalDonations
       /\ response.data = NoEvents
       /\ OnlyLocal(task.previous)
       /\ OnlyLocal(StoredData(goal, "streamElements"))
       /\ StreamElementsAnswers(task, response)
       => \A i \in 1..Len(lastOp'.sent) :
            lastOp'.sent[i].data.props.current.props.overall_total.props.amount.num
              = Rounded(LedgerTotal(goal, task.config.streamElements.summaryType,
                                    day))]_vars

(***************************************************************************)
(* C22.  updateGoalData keeps what the update does not carry and stamps    *)
(* updatedAt: starting a goal anew changes the configuration and           *)
(* updatedAt only, and a sync that writes changes the record of its        *)
(* source and updatedAt only.                                              *)
(***************************************************************************)
UpdateKeepsFields ==
  [][goal.exists =>
       /\ \A session \in Sessions :
            StartGoal(session)
            => goal' = [goal EXCEPT !.config = Some(session.config),
                                    !.updatedAt = Some(now)]
       /\ \A source \in Sources :
            \A newData \in UpdatePayloads[source] :
              syncExternalData(source, newData) /\ lastOp'.ret = "true"
              => /\ goal' = [goal EXCEPT ![source] = goal'[source],
                                         !.updatedAt = Some(now)]
                 /\ StoredData(goal', source) = newData]_vars

\* a goal started anew over a document that holds both sources and the
\* ledger, later than it was created
UpdateKeepsFieldsSeen ==
  /\ lastOp.op = "start"
  /\ IsSome(goal.streamElements)
  /\ IsSome(goal.extraLife)
  /\ IsSome(goal.localDonations)
  /\ goal.updatedAt = Some(now)
  /\ goal.createdAt # goal.updatedAt

RECURSIVE SumDonorCents(_)
SumDonorCents(donors) ==
  IF donors = <<>> THEN 0
  ELSE SumCents(donors[1].individual_donations) + SumDonorCents(Tail(donors))

SamePeriod(timestamp, summaryType, d) ==
  LET date == Get(getTime(timestamp))[1]
  IN  IF summaryType = "weekly" THEN WeekOf(date) = WeekOf(d)
      ELSE getMonth(date) = getMonth(d) /\ getFullYear(date) = getFullYear(d)

(***************************************************************************)
(* C24.  A timestamp is of the current week when it is of the seven days   *)
(* from Sunday 00:00:00 on, the next Sunday 00:00:00 left out, and of the  *)
(* current month when month and year are those of the clock; the test of   *)
(* the manager and the filter of pollFunction give the same answer.        *)
(***************************************************************************)
PeriodsClassified ==
  [][\A timestamp \in PeriodStamps, summaryType \in SummaryTypes :
       Classify(timestamp, summaryType)
       => /\ (lastOp'.ret = "in") = SamePeriod(timestamp, summaryType, day)
          /\ lastOp'.sent = <<lastOp'.ret>>]_vars

\* in the week of Sunday 7 January the instant of the next Sunday is out
PeriodsClassifiedSeen ==
  /\ lastOp.op = "classify"
  /\ lastOp.name = <<"2024-01-14T00:00:00.000Z", "weekly">>
  /\ day = 7
  /\ lastOp.ret = "out"

(***************************************************************************)
(* C25.  In the stored ledger every donor's individual donations are       *)
(* ordered newest first: no donation is followed by a later one.           *)
(***************************************************************************)
NewestFirst ==
  \A i \in 1..Len(Donors(goal)) :
    LET donations == Donors(goal)[i].individual_donations
    IN  \A j \in 1..Len(donations) - 1 :
          donations[j].timestamp >= donations[j + 1].timestamp


(***************************************************************************)
(* The goal-manager effect (goalTrackerManagerEffectType.onTriggerEvent).  *)
(* It makes one call of the manager inside a try block; the calls are      *)
(* written here as functions of the document, with how they return.  A     *)
(* push changes the document in memory before it saves, so a save that     *)
(* fails leaves the change and throws.                                     *)
(***************************************************************************)
EffectOperations == {"add", "remove", "resetUser", "resetStreamElements",
                     "resetExtraLife", "resetLocalData", "unknown"}

\* a manager call: how it returns without a failure of the store ("ok",
\* "null" or "throw"; "refused" when the effect returns before the call),
\* the document it leaves and whether it pushed
Called(ret, g, pushed) == [ret |-> ret, goal |-> g, pushed |-> pushed]

LedgerOf(g, t) ==
  IF IsSome(g.localDonations) THEN Get(g.localDonations) ELSE emptyLocalData(t)

\* updateLocalDonation({name, amount})
LocalAdded(g, name, m, t) ==
  LET newDonation == [amount |-> RoundedAmount[m], timestamp |-> t,
                      donationType |-> "local"]
  IN  IF FLeq(AmountValue[m], FZero) THEN Called("throw", g, FALSE)
      ELSE IF isDuplicate(LedgerOf(g, t).data.donations, name, newDonation)
      THEN Called("null", g, FALSE)
      ELSE Called("ok",
                  PushLocalDonations(g, WithDonation(LedgerOf(g, t), name,
                                                     newDonation)),
                  TRUE)

\* removeLocalDonation(timestamp)
LocalRemoved(g, timestamp, t) ==
  IF ~IsSome(g.localDonations) THEN Called("throw", g, FALSE)
  ELSE IF LastDonorWith(Get(g.localDonations).data.donations, timestamp) = 0
  THEN Called("throw", g, FALSE)
  ELSE Called("ok",
              PushLocalDonations(g,
                WithoutDonation(Get(g.localDonations),
                                LastDonorWith(Get(g.localDonations).data.donations,
                                              timestamp),
                                timestamp, t)),
              TRUE)

\* resetUserDonations(userName)
UserReset(g, userName, t) ==
  IF ~IsSome(g.localDonations) THEN Called("throw", g, FALSE)
  ELSE IF FindDonor(Get(g.localDonations).data.donations, userName) = 0
  THEN Called("throw", g, FALSE)
  ELSE Called("ok",
              PushLocalDonations(g,
                WithoutDonor(Get(g.localDonations),
                             FindDonor(Get(g.localDonations).data.donations,
                                       userName),
                             t)),
              TRUE)

\* the fresh objects of resetStreamElementsData and resetExtraLifeData
freshStreamElements(d, t) ==
  [lastUpdated |-> t, lastGoalReset |-> None,
   data |-> JObj([current |->
                    JObj([donations |-> JArr(<<>>),
                          overall_total |->
                            JObj([amount |-> JNum(0),
                                  donation_count |-> JNum(0)])]),
                  metadata |->
                    JObj([month |-> JNum(getMonth(d)),
                          year |-> JNum(getFullYear(d)),
                          lastUpdated |-> JStr(toISOString(d, t))])])]

freshExtraLife(g, d, t) ==
  [lastUpdated |-> t,
   data |-> JObj([sumDonations |-> JNum(0),
                  fundraisingGoal |-> JNum(Get(g.config).donationGoal),
                  donations |-> JArr(<<>>),
                  metadata |->
                    JObj([lastUpdated |-> JStr(toISOString(d, t)),
                          participantId |->
                            JStr(Get(g.config).extraLife.participantId),
                          eventID |-> JStr("")])])]

\* resetStreamElementsData, resetExtraLifeData and resetLocalData; a document
\* that a push of the ledger created has no config, and reading
\* goalState.config.donationGoal throws
SourceReset(g, source, d, t) ==
  IF ~g.exists THEN Called("ok", g, FALSE)
  ELSE IF source = "extraLife" /\ ~IsSome(g.config)
  THEN Called("throw", g, FALSE)
  ELSE Called("ok",
              updateGoalData(g,
                IF source = "streamElements"
                THEN [g EXCEPT !.streamElements = Some(freshStreamElements(d, t))]
                ELSE [g EXCEPT !.extraLife = Some(freshExtraLife(g, d, t))],
                t),
              TRUE)

LocalReset(g, t) == Called("ok", PushLocalDonations(g, emptyLocalData(t)), TRUE)

\* the inputs of the effect: a donor and a stranger, an amount that is not
\* valid, none, and two that round to the same cents
EffectNames == {<<"A", "d", "a">>, <<"B", "o", "b">>}
EffectAmounts == {-100, 0, 100, 104}

\* Math.abs(d.amount - donationAmount) < 0.01, computed once for the amounts
\* the effect stores
Near(amount, m) ==
  FLess(FNum(FALSE, FSub(amount, AmountValue[m]).mag), FRatio(FALSE, 1, 100))

NearOnce == [amount \in {RoundedAmount[k] : k \in EffectAmounts} |->
               [m \in EffectAmounts |-> Near(amount, m)]]

NearAmount(amount, m) ==
  IF amount \in DOMAIN NearOnce /\ m \in EffectAmounts
  THEN NearOnce[amount][m]
  ELSE Near(amount, m)

\* donor.individual_donations.find(...): the timestamp of the first donation
\* near the amount, none when there is no such donation
donationToRemove(donor, m) ==
  LET hit == FindIndex([i \in 1..Len(donor.individual_donations) |->
                          NearAmount(donor.individual_donations[i].amount, m)])
  IN  IF hit = 0 THEN None
      ELSE Some(donor.individual_donations[hit].timestamp)

\* the 'remove' case up to the call
Removal(g, donorName, m, t) ==
  LET donors == IF IsSome(g.localDonations)
                THEN Get(g.localDonations).data.donations ELSE <<>>
      found  == FindDonor(donors, donorName)
  IN  IF m = 0 \/ ~IsSome(g.localDonations) \/ found = 0
      THEN Called("refused", g, FALSE)
      ELSE IF ~IsSome(donationToRemove(donors[found], m))
      THEN Called("refused", g, FALSE)
      ELSE LocalRemoved(g, Get(donationToRemove(donors[found], m)), t)

\* the switch over the operation
EffectCall(operation, donorName, m, g, d, t) ==
  CASE operation = "add" ->
         IF m = 0 THEN Called("refused", g, FALSE)
         ELSE LocalAdded(g, donorName, m, t)
    [] operation = "remove" -> Removal(g, donorName, m, t)
    [] operation = "resetUser" -> UserReset(g, donorName, t)
    [] operation = "resetStreamElements" -> SourceReset(g, "streamElements", d, t)
    [] operation = "resetExtraLife" -> SourceReset(g, "extraLife", d, t)
    [] operation = "resetLocalData" -> LocalReset(g, t)
    [] OTHER -> Called("refused", g, FALSE)

\* an effect that reports failure only for what it refuses itself
EffectResultOfRefusal(call, ok) ==
  IF call.ret = "refused" THEN "failure" ELSE "success"

\* return { success: ... }: false from the early returns and from the catch
\* block, which a throw of the call or of its save reaches
EffectResult(call, ok) ==
  IF call.ret = "refused" THEN "failure"
  ELSE IF call.ret = "throw" \/ (call.pushed /\ ~ok) THEN "failure"
  ELSE "success"

EffectDone(operation, donorName, m, call, ok) ==
  /\ goal' = call.goal
  /\ lastOp' = [Returned("effect", EffectResult(call, ok)) EXCEPT
                  !.name = <<operation, IF ok THEN "saved" ELSE "not saved">>]
  /\ UNCHANGED <<now, pollVars>>

\* the effect run with an operation, a donor name and an amount; ok: the
\* store saves
ManagerEffect(operation, donorName, m, ok) ==
  /\ operation = "add" => StoredDonations(goal) < MaxDonations
  /\ EffectDone(operation, donorName, m,
                EffectCall(operation, donorName, m, goal, day, now), ok)

\* the goal that the resets work on
GoalStarted ==
  /\ ~goal.exists
  /\ goal' = updateGoalData(goal, baseGoalState(LocalEffect), now)
  /\ lastOp' = Returned("start", "ok")
  /\ UNCHANGED <<now, pollVars>>

\* the duplicate window passes
WindowPasses ==
  /\ now < DupWindow
  /\ now' = DupWindow
  /\ UNCHANGED <<goal, lastOp, pollVars>>

EffectNext ==
  \/ \E operation \in {"add", "remove"}, donorName \in EffectNames,
        m \in EffectAmounts, ok \in BOOLEAN :
       ManagerEffect(operation, donorName, m, ok)
  \/ \E donorName \in EffectNames, ok \in BOOLEAN :
       ManagerEffect("resetUser", donorName, 0, ok)
  \/ \E operation \in EffectOperations \ {"add", "remove", "resetUser"},
        ok \in BOOLEAN :
       ManagerEffect(operation, <<>>, 0, ok)
  \/ GoalStarted
  \/ WindowPasses

EffectSpec == Init /\ [][EffectNext]_vars


\* the donor of the ledger with the name, compared without case
HasDonor(g, donorName) ==
  /\ IsSome(g.localDonations)
  /\ \E i \in 1..Len(Get(g.localDonations).data.donations) :
       SameDonor(Get(g.localDonations).data.donations[i], donorName)

\* the donor has a donation within a cent of the amount
HasDonationNear(g, donorName, m) ==
  /\ IsSome(g.localDonations)
  /\ \E i \in 1..Len(Get(g.localDonations).data.donations) :
       LET donor == Get(g.localDonations).data.donations[i]
       IN  /\ SameDonor(donor, donorName)
           /\ \E j \in 1..Len(donor.individual_donations) :
                NearAmount(donor.individual_donations[j].amount, m)

\* the manager call of the operation is not made or throws before it pushes
CallFails(g, operation, donorName, m) ==
  \/ operation \notin {"add", "remove", "resetUser", "resetStreamElements",
                       "resetExtraLife", "resetLocalData"}
  \/ operation \in {"add", "remove"} /\ ~FLess(FZero, AmountValue[m])
  \/ operation = "remove" /\ ~HasDonationNear(g, donorName, m)
  \/ operation = "resetUser" /\ ~HasDonor(g, donorName)
  \/ operation = "resetExtraLife" /\ g.exists /\ ~IsSome(g.config)

\* the manager call of the operation changes nothing and does not push
CallIdle(g, operation, donorName, m, t) ==
  \/ operation \in {"resetStreamElements", "resetExtraLife"} /\ ~g.exists
  \/ /\ operation = "add"
     /\ isDuplicate(LedgerOf(g, t).data.donations, donorName,
                    [amount |-> RoundedAmount[m], timestamp |-> t,
                     donationType |-> "local"])

\* the effect run with the inputs reported a failure exactly when its call
\* failed or its save did
Reported(operation, donorName, m, ok) ==
  ManagerEffect(operation, donorName, m, ok) =>
    /\ lastOp'.ret \in {"success", "failure"}
    /\ (lastOp'.ret = "failure") =
         (\/ CallFails(goal, operation, donorName, m)
          \/ ~ok /\ ~CallIdle(goal, operation, donorName, m, now))

(***************************************************************************)
(* C26.  The goal-manager effect never throws to the host: whatever the    *)
(* operation and however the manager call fails (the amount is not valid,  *)
(* the donor or the donation is not found, the store does not save), the   *)
(* effect returns {success: false}; it returns {success: true} only when   *)
(* the manager call completed.                                             *)
(***************************************************************************)
EffectReportsFailure ==
  [][\A operation \in EffectOperations, ok \in BOOLEAN :
       /\ lastOp'.op = "effect"
       /\ lastOp'.name = <<operation, IF ok THEN "saved" ELSE "not saved">>
       => IF operation \in {"add", "remove"}
          THEN \A donorName \in EffectNames, m \in EffectAmounts :
                 Reported(operation, donorName, m, ok)
          ELSE IF operation = "resetUser"
          THEN \A donorName \in EffectNames :
                 Reported(operation, donorName, 0, ok)
          ELSE Reported(operation, <<>>, 0, ok)]_vars

\* a reset of the ledger whose save failed was reported as a failure, and the
\* ledger in memory is the empty one
EffectReportsFailureSeen ==
  /\ lastOp.op = "effect" /\ lastOp.ret = "failure"
  /\ lastOp.name = <<"resetLocalData", "not saved">>
  /\ IsSome(goal.localDonations)
  /\ Get(goal.localDonations).data.donations = <<>>


(***************************************************************************)
(* syncExternalData step by step.  The call reads /goal, and after the     *)
(* await goes on with what it read: it compares, sets goalState[source]    *)
(* and calls updateGoalData, which reads /goal again, and after that await *)
(* assigns and pushes.  getData hands out the stored objects themselves,   *)
(* and push stores the object it is given: what a call holds changes when  *)
(* the stored object is changed in place, and no longer when a push has    *)
(* put another object in its place.  A push of /goal stores a new object   *)
(* whose localDonations is the one of the old; the ledger operations       *)
(* change the data of the ledger in place, and resetLocalData and the      *)
(* first donation store a new one.                                         *)
(***************************************************************************)
\* what a call holds of the document: the stored object itself (live), or an
\* object no longer stored, with its fields (doc) and whether the data of
\* its ledger is still the stored one
LiveView == [live |-> TRUE, doc |-> NoGoal, ledgerLive |-> TRUE]

\* the document read through what is held
Seen(view, g) ==
  IF view.live THEN g
  ELSE [view.doc EXCEPT !.localDonations =
          IF view.ledgerLive THEN g.localDonations ELSE @]

\* this._db.push('/goal', {...}) put pushed in the place of old
Detached(view, old, pushed) ==
  IF view.live
  THEN [live |-> FALSE,
        doc |-> [pushed EXCEPT !.updatedAt = old.updatedAt],
        ledgerLive |-> IsSome(pushed.localDonations)]
  ELSE view

\* this._db.push('/goal/localDonations', ...) put a new ledger in the place
\* of the one of old
LedgerReplaced(view, old) ==
  IF ~view.live /\ view.ledgerLive
  THEN [view EXCEPT !.ledgerLive = FALSE,
                    !.doc.localDonations = old.localDonations]
  ELSE view

InFlight(task, held, current) ==
  [task EXCEPT !.held = held, !.current = current]

\* goalState[source] = {lastUpdated, lastGoalReset, data: newData}
WithSource(g, source, newData, t) ==
  [g EXCEPT ![source] =
     Some([lastUpdated |-> t,
           lastGoalReset |-> IF IsSome(g[source])
                                /\ "lastGoalReset" \in DOMAIN Get(g[source])
                             THEN Get(g[source]).lastGoalReset
                             ELSE None,
           data |-> newData])]

\* const goalState = await this.getGoalData()
SyncReads(source, newData) ==
  /\ tasks = {}
  /\ IF ~goal.exists
     THEN /\ lastOp' = [Returned("sync", "false") EXCEPT !.name = <<source>>]
          /\ UNCHANGED tasks
     ELSE /\ lastOp' = [Returned("sync", "waits") EXCEPT !.name = <<source>>]
          /\ tasks' = {[kind |-> "sync", stage |-> "read", source |-> source,
                        data |-> newData, held |-> LiveView,
                        current |-> LiveView]}
  /\ UNCHANGED <<now, goal, day, timers, activePollingInterval, puts>>

\* the comparison, the assignment of goalState[source], and the read of
\* updateGoalData
SyncCompares(task) ==
  LET seen == Seen(task.held, goal)
      currentData == StoredData(seen, task.source)
  IN  /\ task \in tasks
      /\ task.kind = "sync" /\ task.stage = "read"
      /\ IF ~Falsy(currentData) /\ isEqual(currentData, task.data)
         THEN /\ tasks' = tasks \ {task}
              /\ lastOp' = [Returned("sync", "false") EXCEPT
                              !.name = <<task.source>>]
              /\ UNCHANGED goal
         ELSE /\ lastOp' = [Returned("sync", "writes") EXCEPT
                              !.name = <<task.source>>]
              /\ IF task.held.live
                 THEN /\ goal' = WithSource(goal, task.source, task.data, now)
                      /\ tasks' = (tasks \ {task})
                           \cup {[task EXCEPT !.stage = "reread",
                                               !.current = LiveView]}
                 ELSE /\ UNCHANGED goal
                      /\ tasks' = (tasks \ {task})
                           \cup {[task EXCEPT
                                    !.stage = "reread",
                                    !.current = LiveView,
                                    !.held.doc = WithSource(seen, task.source,
                                                            task.data, now)]}
      /\ UNCHANGED <<now, day, timers, activePollingInterval, puts>>

\* the assignments of updateGoalData and its push; amount: the donations the
\* ledger held when it pushed
SyncWrites(task) ==
  /\ task \in tasks
  /\ task.kind = "sync" /\ task.stage = "reread"
  /\ goal' = updateGoalData(Seen(task.current, goal), Seen(task.held, goal),
                            now)
  /\ tasks' = tasks \ {task}
  /\ lastOp' = [Returned("sync", "true") EXCEPT
                  !.name = <<task.source>>,
                  !.amount = StoredDonations(goal)]
  /\ UNCHANGED <<now, day, timers, activePollingInterval, puts>>

\* the goal effect run while a sync is in flight: its push of /goal
GoalPushed(session) ==
  LET pushed == updateGoalData(goal, GoalUpdate(session), now)
  IN  /\ goal' = pushed
      /\ tasks' = {InFlight(task, Detached(task.held, goal, pushed),
                            Detached(task.current, goal, pushed)) :
                     task \in tasks}
      /\ lastOp' = Returned("start", "ok")
      /\ UNCHANGED <<now, day, timers, activePollingInterval, puts>>

\* resetLocalData while a sync is in flight
LedgerPushed ==
  /\ goal' = PushLocalDonations(goal, emptyLocalData(now))
  /\ tasks' = {InFlight(task, LedgerReplaced(task.held, goal),
                        LedgerReplaced(task.current, goal)) : task \in tasks}
  /\ lastOp' = Returned("resetLocal", "ok")
  /\ UNCHANGED <<now, day, timers, activePollingInterval, puts>>

\* one goal, the polls of Extra Life, one donor, and the clock before and
\* after the duplicate window
RaceNext ==
  \/ GoalPushed(CHOOSE session \in Sessions : session.config = "config-1")
  \/ \E newData \in UpdatePayloads["extraLife"] :
       SyncReads("extraLife", newData)
  \/ \E task \in tasks : SyncCompares(task)
  \/ \E task \in tasks : SyncWrites(task)
  \/ updateLocalDonation(<<"A", "d", "a">>, 100)
  \/ LedgerPushed
  \/ WindowPasses

RaceSpec == Init /\ [][RaceNext]_vars

(***************************************************************************)
(* C27.  A ledger mutation that interleaves with a syncExternalData in     *)
(* flight, between its read of the document and its write, can be lost:    *)
(* some interleaving ends with a donation that updateLocalDonation added   *)
(* absent from the document; a sync that nothing interleaves loses none.   *)
(* The formula: a sync that still holds the stored document when it        *)
(* writes, as every sync does that no call interleaved, leaves the ledger  *)
(* as it finds it.  The state seen is the one after the loss.              *)
(***************************************************************************)
SyncKeepsLedger ==
  [][\A task \in tasks :
       /\ task.kind = "sync" /\ task.stage = "reread"
       /\ task.held.live /\ task.current.live
       /\ SyncWrites(task)
       => goal'.localDonations = goal.localDonations]_vars

\* a sync wrote and the ledger holds fewer donations than before the write
DonationLostBySync ==
  /\ lastOp.op = "sync" /\ lastOp.ret = "true"
  /\ lastOp.amount > StoredDonations(goal)


SameAsStored(previousData, participantId, response) ==
  /\ previousData.t = "object"
  /\ previousData.props.metadata.props.participantId = JStr(participantId)
  /\ previousData.props.sumDonations = JNum(response.sumDonations)
  /\ previousData.props.fundraisingGoal = JNum(response.fundraisingGoal)
  /\ previousData.props.metadata.props.eventID = JStr(response.eventID)

(***************************************************************************)
(* C30.  When the participant is the stored one and the sumDonations,      *)
(* fundraisingGoal and eventID of the answer equal the stored values,      *)
(* pollExtraLife returns the stored data as it is, does not request the    *)
(* donations and does not write the document.  The stored values are the   *)
(* ones the call read before its request.                                  *)
(***************************************************************************)
UnchangedPollReturnsStored ==
  [][\A task \in tasks, response \in ExtraLifeResponses :
       /\ task.kind = "poll" /\ task.mode = "extraLife"
       /\ response.status = "ok"
       /\ SameAsStored(task.previous, task.config.extraLife.participantId,
                       response)
       /\ ExtraLifeAnswers(task, response)
       => /\ lastOp'.sent = <<Message("update", "extraLife", task.previous)>>
          /\ goal' = goal
          /\ ExtraLifePolled(goal, task.previous,
                             task.config.extraLife.participantId,
                             response, day, now).requests = 1]_vars

\* a poll found the raised sum it had stored and skipped the update
UnchangedPollReturnsStoredSeen ==
  /\ lastOp.op = "pollExtraLife" /\ lastOp.ret = "previous"
  /\ lastOp.name = <<"unchanged">>
  /\ StoredData(goal, "extraLife") # JUndefined
  /\ StoredData(goal, "extraLife").props.sumDonations = JNum(5)
  /\ lastOp.sent = <<Message("update", "extraLife",
                             StoredData(goal, "extraLife"))>>


(***************************************************************************)
(* The polls of Extra Life over the events of a participant: each poll     *)
(* runs from its read of the stored data to its write; the API lists the   *)
(* donations of every event of the participant, and a donationID belongs   *)
(* to one donation.                                                        *)
(***************************************************************************)
Events == {"event", "next"}

SecondDonation ==
  JObj([amount |-> JNum(7), displayName |-> JStr("Cy"),
        message |-> JStr(""), donationID |-> JStr("second"),
        createdDateUTC |-> JStr("2024-01-01T00:00:05.000Z"),
        eventID |-> JStr("event")])

NextDonation ==
  JObj([amount |-> JNum(5), displayName |-> JStr("Di"),
        message |-> JStr(""), donationID |-> JStr("next-donation"),
        createdDateUTC |-> JStr("2024-01-01T00:00:05.000Z"),
        eventID |-> JStr("next")])

\* the donations lists of the API for a participant
DonationLists(participantId) ==
  IF participantId = "participant"
  THEN {<<>>, <<ExtraLifeDonation>>, <<PastDonation, ExtraLifeDonation>>,
        <<SecondDonation, ExtraLifeDonation>>,
        <<ExtraLifeDonation, NextDonation>>}
  ELSE {<<>>, <<OtherDonation>>}

EventResponses(participantId) ==
  {[status |-> "ok", sumDonations |-> sum, fundraisingGoal |-> 100,
    eventID |-> eventID, donationsOk |-> TRUE, donations |-> donations] :
     sum \in {5, 12}, eventID \in Events,
     donations \in DonationLists(participantId)}

\* the goal effect run with Extra Life
EventGoal(effect) ==
  /\ goal' = updateGoalData(goal, baseGoalState(effect), now)
  /\ lastOp' = Returned("start", "ok")
  /\ UNCHANGED <<now, pollVars>>

EventPolled(polled, event) ==
  /\ goal' = polled.goal
  /\ lastOp' = [Returned("pollExtraLife", polled.ret) EXCEPT
                  !.name = event,
                  !.sent = Update("extraLife", polled.data)]
  /\ UNCHANGED <<now, pollVars>>

\* pollExtraLife(config.extraLife.participantId) answered with response
EventPoll(response) ==
  /\ goal.exists /\ IsSome(goal.config)
  /\ response \in EventResponses(Get(goal.config).extraLife.participantId)
  /\ EventPolled(ExtraLifePolled(goal, StoredData(goal, "extraLife"),
                                 Get(goal.config).extraLife.participantId,
                                 response, day, now),
                 <<response.eventID,
                   IF response.donations = <<>> THEN "none listed"
                   ELSE "listed">>)

EventNext ==
  \/ \E effect \in ExtraLifeEffects : EventGoal(effect)
  \/ \E participantId \in ParticipantIds :
       \E response \in EventResponses(participantId) : EventPoll(response)
  \/ ManagerEffect("resetExtraLife", <<>>, 0, TRUE)
  \/ WindowPasses

EventSpec == Init /\ [][EventNext]_vars

\* the stored donations of Extra Life and the donationIDs of a list
StoredExtraLife(g) ==
  IF Falsy(StoredData(g, "extraLife")) THEN <<>>
  ELSE StoredData(g, "extraLife").props.donations.items

DonationIds(items) == {items[i].props.donationID : i \in 1..Len(items)}

\* the newDonations of the data a poll returned: none when the key is absent
ReturnedNew(sent) ==
  IF "newDonations" \in DOMAIN sent[1].data.props
  THEN sent[1].data.props.newDonations.items
  ELSE <<>>

StoredOfCurrentEvent ==
  [][\A participantId \in ParticipantIds :
       \A response \in EventResponses(participantId) :
         /\ lastOp'.op = "pollExtraLife" /\ lastOp'.ret = "fresh"
         /\ EventPoll(response)
         /\ goal' # goal
         => /\ StoredData(goal', "extraLife").props.metadata.props.eventID
                 = JStr(response.eventID)
            /\ \A i \in 1..Len(StoredExtraLife(goal')) :
                 StoredExtraLife(goal')[i].props.eventID
                   = JStr(response.eventID)
            /\ \A d \in {response.donations[i] :
                           i \in 1..Len(response.donations)}
                        \cup {StoredExtraLife(goal)[i] :
                                i \in 1..Len(StoredExtraLife(goal))} :
                 d.props.eventID # JStr(response.eventID)
                   => d.props.donationID
                        \notin DonationIds(StoredExtraLife(goal'))
     ]_vars

\* the participant has gone on to the next event: the donation of that
\* event is stored, those of the event before are not
StoredOfCurrentEventSeen ==
  /\ lastOp.op = "pollExtraLife" /\ lastOp.ret = "fresh"
  /\ lastOp.name = <<"next", "listed">>
  /\ ~Falsy(StoredData(goal, "extraLife"))
  /\ StoredData(goal, "extraLife").props.metadata.props.eventID = JStr("next")
  /\ DonationIds(StoredExtraLife(goal)) = {JStr("next-donation")}


\* the data the poll read is of the participant and the event
SameParticipantAndEvent(previousData, participantId, eventID) ==
  /\ previousData.t = "object"
  /\ previousData.props.metadata.props.participantId = JStr(participantId)
  /\ previousData.props.metadata.props.eventID = JStr(eventID)

(***************************************************************************)
(* C31.  While the participant and the eventID stay the same, the stored   *)
(* donations of Extra Life only grow: what one poll stored is still stored *)
(* after every later poll, also when the API no longer lists it.           *)
(***************************************************************************)
StoredDonationsKept ==
  [][\A task \in tasks, response \in ExtraLifeResponses :
       /\ task.kind = "poll" /\ task.mode = "extraLife"
       /\ response.status = "ok" /\ response.donationsOk
       /\ ~Falsy(StoredData(goal, "extraLife"))
       /\ StoredData(goal, "extraLife").props.metadata.props.participantId
            = JStr(task.config.extraLife.participantId)
       /\ StoredData(goal, "extraLife").props.metadata.props.eventID
            = JStr(response.eventID)
       /\ SameParticipantAndEvent(task.previous,
                                  task.config.extraLife.participantId,
                                  response.eventID)
       /\ ExtraLifeAnswers(task, response)
       => /\ ~Falsy(StoredData(goal', "extraLife"))
          /\ {StoredExtraLife(goal)[i] : i \in 1..Len(StoredExtraLife(goal))}
               \subseteq {StoredExtraLife(goal')[i] :
                            i \in 1..Len(StoredExtraLife(goal'))}]_vars


(***************************************************************************)
(* C32.  Over the ticks of Extra Life a donation is in the newDonations of *)
(* the payload pushed to the overlay in one tick at most: a tick in which  *)
(* the API reports no new donation pushes no newDonations that an earlier  *)
(* tick pushed.  The tick taken here is the one whose answer shows the     *)
(* stored sum, goal and event, so that the donations are not even asked    *)
(* for; what it pushes holds no newDonations.                              *)
(***************************************************************************)
NewDonationsPushedOnce ==
  [][\A task \in tasks, response \in ExtraLifeResponses :
       /\ task.kind = "poll" /\ task.mode = "extraLife"
       /\ response.status = "ok"
       /\ SameAsStored(task.previous, task.config.extraLife.participantId,
                       response)
       /\ ExtraLifeAnswers(task, response)
       => \A i \in 1..Len(lastOp'.sent) :
            "newDonations" \notin DOMAIN lastOp'.sent[i].data.props]_vars


(***************************************************************************)
(* StreamElements goals over the periods: the polls of a session with the  *)
(* ledger blended in or not, donations entered in the ledger, midnights,   *)
(* and processStreamElementsData applied to previous data that holds       *)
(* donors of its own.                                                      *)
(***************************************************************************)
TipOfMonday ==
  [name |-> "Ada", amount |-> FRatio(FALSE, 5, 1), createdAt |-> Since2024]

TipOfNextWeek ==
  [name |-> "Bob", amount |-> FRatio(FALSE, 7, 1),
   createdAt |-> "2024-01-07T00:00:00.000Z"]

CarryResponses ==
  {[status |-> "ok", data |-> SessionData(<<>>, None, <<>>, tips)] :
     tips \in {<<>>, <<TipOfMonday>>, <<TipOfMonday, TipOfNextWeek>>}}

\* donors as an earlier result holds them, the totals out of date
PreviousDonors ==
  <<JObj([name |-> JStr("Ada"),
          individual_donations |->
            JArr(<<JObj([amount |-> JFloat(FRatio(FALSE, 7, 1)),
                         timestamp |-> JStr("2024-01-07T00:00:00.000Z"),
                         donationType |-> JStr("tip")]),
                   JObj([amount |-> JFloat(FRatio(FALSE, 5, 1)),
                         timestamp |-> JStr(Since2024),
                         donationType |-> JStr("tip")]),
                   JObj([amount |-> JFloat(FRatio(FALSE, 35, 100)),
                         timestamp |-> JStr(LastYear),
                         donationType |-> JStr("bits")])>>),
          total_amount |-> JFloat(FRatio(FALSE, 1235, 100)),
          total_donations |-> JNum(3)]),
    JObj([name |-> JStr("Bob"),
          individual_donations |->
            JArr(<<JObj([amount |-> JFloat(FRatio(FALSE, 5, 1)),
                         timestamp |-> JStr(LastYear),
                         donationType |-> JStr("tip")])>>),
          total_amount |-> JFloat(FRatio(FALSE, 5, 1)),
          total_donations |-> JNum(1)])>>

\* processStreamElementsData with previous data that holds donations, before
\* anything else is done
Carry(summaryType, response) ==
  /\ ~goal.exists /\ lastOp.op = "none"
  /\ lastOp' = [Returned("processStreamElementsData", "ok") EXCEPT
                  !.name = <<summaryType>>,
                  !.sent = <<processStreamElementsData(
                               response.data,
                               JObj([donations |-> JArr(PreviousDonors)]),
                               getMonth(day), getFullYear(day),
                               StreamElementsConfig(TRUE, FALSE, summaryType),
                               day)>>]
  /\ UNCHANGED <<now, goal, pollVars>>

\* answers with the goals of the session set or not
GoalAnswers ==
  {[SessionData(subscribers, None, cheers, tips) EXCEPT
      !.cheerGoal = goals[1], !.subscriberGoal = goals[2],
      !.tipGoal = goals[3]] :
     subscribers \in {<<>>, <<[name |-> "Ada", tier |-> "1000",
                               createdAt |-> Since2024]>>},
     cheers \in {<<>>,
                 <<[name |-> "Ada", amount |-> 35, createdAt |-> Since2024]>>,
                 <<[name |-> "Bob", amount |-> 35, createdAt |-> Since2024],
                   [name |-> "Bob", amount |-> 500, createdAt |-> Since2024],
                   [name |-> "Bob", amount |-> 500, createdAt |-> Since2024]>>},
     tips \in {<<>>, <<[name |-> "Ada", amount |-> FRatio(FALSE, 35, 100),
                        createdAt |-> Since2024]>>},
     goals \in {0, 100} \X {0, 3} \X {FZero, FRatio(FALSE, 1, 1)}}

\* processStreamElementsData with an answer that carries goals; the answer
\* is kept beside the result
Reconcile(summaryType, answer) ==
  /\ ~goal.exists /\ lastOp.op = "none"
  /\ lastOp' = [Returned("reconcile", "ok") EXCEPT
                  !.name = <<summaryType>>,
                  !.sent = <<processStreamElementsData(
                               answer,
                               JObj([donations |-> JArr(PreviousDonors)]),
                               getMonth(day), getFullYear(day),
                               StreamElementsConfig(TRUE, FALSE, summaryType),
                               day),
                             answer>>]
  /\ UNCHANGED <<now, goal, pollVars>>

\* the clock passes into the next week or the next month
PeriodDays == {6, 31}

NextPeriod ==
  /\ \E d \in PeriodDays : d > day /\ day' = d
  /\ puts' = 0
  /\ UNCHANGED <<now, goal, lastOp, timers, activePollingInterval, tasks>>

\* one session: a trigger only when no timer is set and no call is waiting
CarryNext ==
  \/ \E effect \in StreamElementsEffects :
       tasks = {} /\ timers = {} /\ TriggerPersist(effect)
  \/ \E task \in tasks : TriggerStart(task, TRUE)
  \/ \E timer \in timers : TimerFires(timer, TRUE)
  \/ \E task \in tasks, response \in CarryResponses :
       StreamElementsAnswers(task, response)
  \/ updateLocalDonation(<<"A", "d", "a">>, 100)
  \/ NextPeriod
  \/ \E summaryType \in SummaryTypes, response \in CarryResponses :
       Carry(summaryType, response)
  \/ \E summaryType \in SummaryTypes, answer \in GoalAnswers :
       Reconcile(summaryType, answer)

CarrySpec == Init /\ [][CarryNext]_vars

\* the donors of a result or of stored data current
DonorsOf(current) == current.props.donations.items

\* every donation of the donors lies in the period of day d
AllInPeriod(donors, summaryType, d) ==
  \A i \in 1..Len(donors) :
    \A k \in 1..Len(donors[i].props.individual_donations.items) :
      isInCurrentPeriod(
        donors[i].props.individual_donations.items[k].props.timestamp.str,
        summaryType, d, getMonth(d), getFullYear(d))

\* every donor holds a donation and its totals are those of its donations
TotalsRecomputed(donors) ==
  \A i \in 1..Len(donors) :
    LET all == [k \in 1..Len(donors[i].props.individual_donations.items) |->
                  DonationOfJson(donors[i].props.individual_donations.items[k])]
    IN  /\ all # <<>>
        /\ donors[i].props.total_donations = JNum(Len(all))
        /\ donors[i].props.total_amount.num = roundToTwoDecimals(SumAmounts(all))

RECURSIVE ListTotal(_, _, _, _)
ListTotal(stamps, values, summaryType, d) ==
  IF stamps = <<>> THEN FZero
  ELSE LET before == ListTotal(SubSeq(stamps, 1, Len(stamps) - 1),
                               SubSeq(values, 1, Len(values) - 1),
                               summaryType, d)
       IN  IF isInCurrentPeriod(stamps[Len(stamps)], summaryType, d,
                                getMonth(d), getFullYear(d))
           THEN FAdd(before, values[Len(values)])
           ELSE before

\* max(0, goal - total)
Shortfall(goalAmount, total) ==
  IF FLess(total, goalAmount) THEN FSub(goalAmount, total) ELSE FZero

\* the three shortfalls of an answer: cheers, subscriptions, tips
Shortfalls(answer, config, d) ==
  <<Shortfall(IF answer.cheerGoal = 0 THEN FZero
              ELSE FMulInt(config.bitsValue, answer.cheerGoal),
              ListTotal([i \in 1..Len(answer.cheers) |-> answer.cheers[i].createdAt],
                        [i \in 1..Len(answer.cheers) |->
                           FMulInt(config.bitsValue, answer.cheers[i].amount)],
                        config.summaryType, d)),
    Shortfall(IF answer.subscriberGoal = 0 THEN FZero
              ELSE FMulInt(config.subscriptionValues.tier1, answer.subscriberGoal),
              ListTotal([i \in 1..Len(answer.subscribers) |->
                           answer.subscribers[i].createdAt],
                        [i \in 1..Len(answer.subscribers) |->
                           subValue(answer.subscribers[i].tier,
                                    config.subscriptionValues)],
                        config.summaryType, d)),
    Shortfall(answer.tipGoal,
              ListTotal([i \in 1..Len(answer.tips) |-> answer.tips[i].createdAt],
                        [i \in 1..Len(answer.tips) |-> answer.tips[i].amount],
                        config.summaryType, d))>>

\* the donors' total_amount added up, and their total_donations
RECURSIVE DonorTotals(_)
DonorTotals(donors) ==
  IF donors = <<>> THEN [amount |-> FZero, count |-> 0]
  ELSE LET before == DonorTotals(SubSeq(donors, 1, Len(donors) - 1))
           donor  == donors[Len(donors)]
       IN  [amount |-> safeAdd(before.amount, donor.props.total_amount.num),
            count |-> before.count
                        + Len(donor.props.individual_donations.items)]

OverallIs(result, short) ==
  /\ result.props.overall_total.props.amount.num
       = FAdd(FAdd(FAdd(DonorTotals(DonorsOf(result)).amount, short[1]),
                   short[2]), short[3])
  /\ result.props.overall_total.props.donation_count
       = JNum(DonorTotals(DonorsOf(result)).count)
  /\ \A i \in 1..Len(DonorsOf(result)) :
       /\ DonorsOf(result)[i].props.total_donations
            = JNum(Len(DonorsOf(result)[i].props.individual_donations.items))
       /\ DonorsOf(result)[i].props.total_amount.num
            = roundToTwoDecimals(SumAmounts(
                [k \in 1..Len(DonorsOf(result)[i].props.individual_donations.items) |->
                   DonationOfJson(DonorsOf(result)[i].props.individual_donations.items[k])]))

(***************************************************************************)
(* C34.  In the result of processStreamElementsData overall_total.amount   *)
(* is the sum of the donors' total_amount plus, for the cheers, the        *)
(* subscriptions and the tips in turn, the amount by which the goal of the *)
(* session exceeds the total of the events of the list; no donor's total   *)
(* holds a shortfall, and overall_total.donation_count is the sum of the   *)
(* donors' total_donations.                                                *)
(***************************************************************************)
OverallTotalReconciled ==
  [][lastOp'.op = "reconcile" /\ day' = day
     => OverallIs(lastOp'.sent[1],
                  Shortfalls(lastOp'.sent[2],
                             StreamElementsConfig(TRUE, FALSE, lastOp'.name[1]),
                             day'))]_vars

\* an answer whose cheers fall short of the cheer goal and whose tips fall
\* short of the tip goal
OverallTotalReconciledSeen ==
  /\ lastOp.op = "reconcile"
  /\ lastOp.sent[2].cheerGoal = 100 /\ lastOp.sent[2].cheers # <<>>
  /\ lastOp.sent[2].tipGoal # FZero /\ lastOp.sent[2].tips # <<>>
  /\ lastOp.sent[2].subscriberGoal = 3
  /\ day = 0
  /\ DonorsOf(lastOp.sent[1]) # <<>>
  /\ lastOp.sent[1].props.overall_total.props.amount.num
       # DonorTotals(DonorsOf(lastOp.sent[1])).amount


\* a number of at most two decimal places: rounding to two decimals gives
\* the number back
InCents(x) == roundToTwoDecimals(x) = x

\* the amounts of the ledger
LedgerInCents(localDonations) ==
  /\ InCents(localDonations.data.overall_total.amount)
  /\ \A i \in 1..Len(localDonations.data.donations) :
       /\ InCents(localDonations.data.donations[i].total_amount)
       /\ \A k \in 1..Len(localDonations.data.donations[i].individual_donations) :
            InCents(localDonations.data.donations[i].individual_donations[k].amount)

\* the amounts of a StreamElements record
RecordInCents(current) ==
  /\ InCents(current.props.overall_total.props.amount.num)
  /\ \A i \in 1..Len(DonorsOf(current)) :
       /\ InCents(DonorsOf(current)[i].props.total_amount.num)
       /\ \A k \in 1..Len(DonorsOf(current)[i].props.individual_donations.items) :
            InCents(DonorsOf(current)[i].props.individual_donations.items[k]
                      .props.amount.num)

(***************************************************************************)
(* C35.  Every amount that is stored, in the ledger and in the             *)
(* StreamElements record (the amount of a donation, the total of a donor,  *)
(* the overall total), has at most two decimal places.                     *)
(***************************************************************************)
StoredAmountsInCents ==
  /\ IsSome(goal.localDonations) => LedgerInCents(Get(goal.localDonations))
  /\ ~Falsy(StoredData(goal, "streamElements"))
       => RecordInCents(StoredData(goal, "streamElements").props.current)


(***************************************************************************)
(* syncExternalData with both sources, the ledger and the reset stamp of   *)
(* StreamElements in the document.                                         *)
(***************************************************************************)
FramePayloads ==
  [source \in Sources |->
     {data \in Payloads[source] :
        data.props.metadata.props.lastUpdated = JStr("2024-01-01T00:00:00.000Z")}]

\* resetGoalValuesIfNeeded of a poll, the platform accepting the PUT
GoalValuesReset(summaryType) ==
  /\ goal.exists
  /\ shouldReset(goal, summaryType, day) = TRUE
  /\ goal' = resetGoalValuesIfNeeded(goal, summaryType, day, now, TRUE).goal
  /\ lastOp' = Returned("resetGoalValues", "ok")
  /\ UNCHANGED <<now, pollVars>>

FrameNext ==
  \/ StartGoal(CHOOSE session \in Sessions : session.config = "config-1")
  \/ \E source \in Sources :
       \E newData \in FramePayloads[source] : syncExternalData(source, newData)
  \/ updateLocalDonation(<<"A", "d", "a">>, 100)
  \/ \E summaryType \in SummaryTypes : GoalValuesReset(summaryType)
  \/ WindowPasses

FrameSpec == Init /\ [][FrameNext]_vars

\* lastGoalReset of the source's record, undefined when there is none
StoredReset(g, source) ==
  IF IsSome(g[source]) /\ "lastGoalReset" \in DOMAIN Get(g[source])
  THEN Get(g[source]).lastGoalReset
  ELSE None

(***************************************************************************)
(* C36.  A syncExternalData that stores changed data writes lastUpdated of *)
(* the time of the call and the new data in the source's record and keeps  *)
(* the lastGoalReset the record held; the record of the other source and   *)
(* the ledger are as before.                                               *)
(***************************************************************************)
SyncWritesOneSource ==
  [][\A source \in Sources :
       \A newData \in FramePayloads[source] :
         syncExternalData(source, newData) /\ lastOp'.ret = "true"
         => /\ Get(goal'[source]).lastUpdated = now
            /\ Get(goal'[source]).data = newData
            /\ StoredReset(goal', source) = StoredReset(goal, source)
            /\ DOMAIN Get(goal'[source])
                 \subseteq {"lastUpdated", "data", "lastGoalReset"}
            /\ \A other \in Sources \ {source} : goal'[other] = goal[other]
            /\ goal'.localDonations = goal.localDonations]_vars

\* a sync of StreamElements stored new data in a document that holds a
\* reset stamp, a record of Extra Life and a donation in the ledger
SyncWritesOneSourceSeen ==
  /\ lastOp.op = "sync" /\ lastOp.ret = "true"
  /\ lastOp.name = <<"streamElements">>
  /\ IsSome(StoredReset(goal, "streamElements"))
  /\ Get(goal.streamElements).lastUpdated = now
  /\ now > 0
  /\ IsSome(goal.extraLife)
  /\ IsSome(goal.localDonations)
  /\ Get(goal.localDonations).data.donations # <<>>


(***************************************************************************)
(* Triggers of every kind: Extra Life (one of them with useStreamElements  *)
(* set as well), StreamElements and local goals, one after the other or    *)
(* while another trigger or poll is waiting.                               *)
(***************************************************************************)
ModeEffects ==
  ExtraLifeEffects \cup {LocalEffect}
    \cup {effect \in StreamElementsEffects :
            effect.streamElements.summaryType = "monthly"}

ModeExtraLifeResponses ==
  {response \in ExtraLifeResponses :
     response.status = "ok" /\ response.donationsOk /\ response.sumDonations = 5}

ModeNext ==
  \/ \E effect \in ModeEffects : TriggerPersist(effect)
  \/ \E task \in tasks : TriggerStart(task, TRUE)
  \/ \E timer \in timers : TimerFires(timer, TRUE)
  \/ \E task \in tasks, response \in ModeExtraLifeResponses :
       ExtraLifeAnswers(task, response)
  \/ \E task \in tasks :
       StreamElementsAnswers(task, [status |-> "ok", data |-> NoEvents])
  \/ \E task \in tasks : LocalTimeout(task)

ModeSpec == Init /\ [][ModeNext]_vars

\* the source a config makes authoritative
AuthoritativeSource(config) ==
  IF config.extraLife.useExtraLife THEN "extraLife"
  ELSE IF config.streamElements.useStreamElements THEN "streamElements"
  ELSE "local"

BothSources(config) ==
  config.extraLife.useExtraLife /\ config.streamElements.useStreamElements

(***************************************************************************)
(* C37.  The config a trigger of the goal effect persists never has        *)
(* useExtraLife and useStreamElements both true, and the mode of the       *)
(* polling the trigger starts is the authoritative source of the config it *)
(* persisted: extraLife with useExtraLife, else streamElements with        *)
(* useStreamElements, else local.                                          *)
(***************************************************************************)
ModeOfPersistedConfig ==
  [][/\ \A effect \in ModeEffects :
          TriggerPersist(effect)
          => /\ ~BothSources(Get(goal'.config))
             /\ \E task \in tasks' :
                  /\ task.kind = "trigger"
                  /\ task.config = Get(goal'.config)
                  /\ task.mode = AuthoritativeSource(task.config)
     /\ \A task \in tasks :
          TriggerStart(task, TRUE)
          => /\ ~BothSources(task.config)
             /\ \E timer \in timers' :
                  /\ Some(timer.id) = activePollingInterval'
                  /\ timer.config = task.config
                  /\ timer.mode = AuthoritativeSource(task.config)
     /\ goal'.exists => ~BothSources(Get(goal'.config))]_vars

\* polling was started for a trigger whose effect came with useExtraLife
\* and useStreamElements both set
ModeOfPersistedConfigSeen ==
  /\ lastOp.op = "startPolling"
  /\ goal.exists
  /\ Get(goal.config).extraLife.useExtraLife
  /\ Get(goal.config).extraLife.participantId = "participant"
  /\ ~Get(goal.config).streamElements.useStreamElements
  /\ \E timer \in timers :
       /\ Some(timer.id) = activePollingInterval
       /\ timer.mode = "extraLife"
       /\ timer.config = Get(goal.config)


(***************************************************************************)
(* Sessions whose requests are all answered: a goal of Extra Life or of    *)
(* StreamElements is started when nothing is waiting, the timer ticks, and *)
(* the API gives the same answer to every poll.  What has begun goes on:   *)
(* the trigger reaches startPolling, the timer fires again and again, and  *)
(* a request that was sent is answered.                                    *)
(***************************************************************************)
LiveEffects ==
  {effect \in ExtraLifeEffects : effect.extraLife.participantId = "participant"}
    \cup {effect \in StreamElementsEffects :
            /\ ~effect.streamElements.useLocalDonations
            /\ effect.streamElements.summaryType = "monthly"}

LiveExtraLife ==
  CHOOSE response \in ExtraLifeResponses :
    /\ response.status = "ok" /\ response.donationsOk
    /\ response.donations = <<ExtraLifeDonation>>

LiveStreamElements == [status |-> "ok", data |-> OneTip]

LiveTrigger == \E effect \in LiveEffects : tasks = {} /\ TriggerPersist(effect)
LiveStart == \E task \in tasks : TriggerStart(task, TRUE)
LiveTick == \E timer \in timers : TimerFires(timer, TRUE)
LiveExtraLifeAnswer == \E task \in tasks : ExtraLifeAnswers(task, LiveExtraLife)
LiveStreamElementsAnswer ==
  \E task \in tasks : StreamElementsAnswers(task, LiveStreamElements)

LiveNext ==
  \/ LiveTrigger
  \/ LiveStart
  \/ LiveTick
  \/ LiveExtraLifeAnswer
  \/ LiveStreamElementsAnswer
  \/ WindowPasses

\* a request that waits is answered: the call leaves the waiting ones
PollAnswered ==
  \E task \in tasks : task.kind = "poll" /\ tasks' = tasks \ {task}

LiveSpec ==
  /\ Init /\ [][LiveNext]_vars
  /\ WF_vars(LiveStart)
  /\ WF_vars(LiveTick)
  /\ WF_tasks(PollAnswered)

\* startPolling has run for a goal of the source
SessionStarted(source) ==
  /\ lastOp.op = "startPolling"
  /\ \E timer \in timers :
       Some(timer.id) = activePollingInterval /\ timer.mode = source

\* the stored record of the source holds what the API answers
RecordIsAnswer(source) ==
  LET data == StoredData(goal, source)
  IN  /\ ~Falsy(data)
      /\ IF source = "extraLife"
         THEN /\ data.props.sumDonations = JNum(LiveExtraLife.sumDonations)
              /\ data.props.fundraisingGoal = JNum(LiveExtraLife.fundraisingGoal)
              /\ DonationIds(data.props.donations.items)
                   = DonationIds(LiveExtraLife.donations)
              /\ Len(data.props.donations.items) = Len(LiveExtraLife.donations)
         ELSE /\ Len(DonorsOf(data.props.current)) = 1
              /\ DonorsOf(data.props.current)[1].props.name = JStr("Ada")
              /\ DonorsOf(data.props.current)[1].props.total_amount = JNum(5)
              /\ Len(DonorsOf(data.props.current)[1].props.individual_donations.items) = 1
              /\ data.props.current.props.overall_total.props.amount = JNum(5)
              /\ data.props.current.props.overall_total.props.donation_count = JNum(1)

(***************************************************************************)
(* C38.  startPolling runs pollFunction at once and sets one timer that    *)
(* runs it again with the interval the config gives for the source of the  *)
(* session; and when every request is answered, the stored record of the   *)
(* source of a started session comes to hold the data of the API.          *)
(***************************************************************************)
PollingStoresAnswer ==
  /\ [][/\ \A task \in tasks :
             TriggerStart(task, TRUE)
             => /\ \E poll \in tasks' :
                     poll.kind = "poll" /\ poll.mode = task.mode
                /\ timers' = {[id |-> Get(activePollingInterval'),
                               mode |-> task.mode, config |-> task.config,
                               interval |-> pollInterval(task.mode)]}
          /\ \A timer \in timers :
               TimerFires(timer, TRUE)
               => /\ timers' = timers
                  /\ Cardinality(tasks' \ tasks) <= 1
                  /\ \A poll \in tasks' \ tasks :
                       poll.kind = "poll" /\ poll.mode = timer.mode]_vars
  /\ SessionStarted("extraLife") ~> RecordIsAnswer("extraLife")
  /\ SessionStarted("streamElements") ~> RecordIsAnswer("streamElements")

\* the record of a StreamElements session holds the answer and the timer
\* of the session is set
PollingStoresAnswerSeen ==
  /\ RecordIsAnswer("streamElements")
  /\ lastOp.op = "pollStreamElements"
  /\ \E timer \in timers :
       /\ Some(timer.id) = activePollingInterval
       /\ timer.mode = "streamElements"
       /\ timer.interval = "streamElements.pollInterval"


\* the donors of the ledger other than the one of the name, as stored
OtherDonors(g, donorName) ==
  IF IsSome(g.localDonations)
  THEN SelectSeq(Get(g.localDonations).data.donations,
                 LAMBDA donor : ~SameDonor(donor, donorName))
  ELSE <<>>

\* the amounts of the donations of the donor of the name
AmountsOf(g, donorName) ==
  IF IsSome(g.localDonations)
  THEN LET donors == SelectSeq(Get(g.localDonations).data.donations,
                               LAMBDA donor : SameDonor(donor, donorName))
       IN  IF donors = <<>> THEN <<>>
           ELSE [k \in 1..Len(donors[1].individual_donations) |->
                   donors[1].individual_donations[k].amount]
  ELSE <<>>

\* one element within a cent of the amount is gone from the amounts
OneNearGone(before, after, m) ==
  \E k \in 1..Len(before) :
    /\ NearAmount(before[k], m)
    /\ after = SubSeq(before, 1, k - 1) \o SubSeq(before, k + 1, Len(before))

(***************************************************************************)
(* C39.  A remove of the manager effect for a donor and an amount that     *)
(* succeeds takes one donation within 0.01 of the amount from that donor   *)
(* and leaves the donations of every other donor as they were, also when   *)
(* donors hold donations of the same timestamp.                            *)
(***************************************************************************)
RemoveTakesFromDonor ==
  [][\A donorName \in EffectNames, m \in EffectAmounts :
       /\ lastOp'.op = "effect"
       /\ lastOp'.name = <<"remove", "saved">>
       /\ lastOp'.ret = "success"
       /\ HasDonationNear(goal, donorName, m)
       /\ ManagerEffect("remove", donorName, m, TRUE)
       => /\ OtherDonors(goal', donorName) = OtherDonors(goal, donorName)
          /\ OneNearGone(AmountsOf(goal, donorName),
                         AmountsOf(goal', donorName), m)]_vars


(***************************************************************************)
(* The uuid of a session.  Every trigger of the goal effect draws a uuid   *)
(* of its own (randomUUID), writes its goal state with updateGoalData and  *)
(* sends the same state to the overlay; the ledger may have created the    *)
(* document before.                                                        *)
(***************************************************************************)
Uuids == {"goal-1", "goal-2", "goal-3"}

\* randomUUID(): a uuid that is not the stored one nor the one sent last
NewUuids ==
  {u \in Uuids : /\ goal.uuid # Some(u)
                  /\ lastOp.op = "goal" => lastOp.sent[1].uuid # Some(u)}

\* onTriggerEvent up to the message to the overlay
GoalSent(effect, goalUuid) ==
  /\ goal' = updateGoalData(goal, [baseGoalState(effect) EXCEPT
                                     !.uuid = Some(goalUuid)], now)
  /\ lastOp' = [Returned("goal", "ok") EXCEPT
                  !.sent = <<[baseGoalState(effect) EXCEPT
                                !.uuid = Some(goalUuid)]>>]
  /\ UNCHANGED <<now, pollVars>>

UuidNext ==
  \/ \E effect \in ModeEffects, goalUuid \in NewUuids : GoalSent(effect, goalUuid)
  \/ \E m \in {100, 200} : updateLocalDonation(<<"A", "d", "a">>, m)
  \/ WindowPasses

UuidSpec == Init /\ [][UuidNext]_vars

(***************************************************************************)
(* C40.  After a trigger of the goal effect the uuid of the stored goal    *)
(* document is the uuid of the goal state the trigger sent to the overlay, *)
(* also when a document was stored before.                                 *)
(***************************************************************************)
StoredUuidIsSent ==
  lastOp.op = "goal" => goal.uuid = lastOp.sent[1].uuid

====
